---- MODULE Spec2Model ----
(***************************************************************************)
(* A model of the shorts creator (Mayflowerpy/youtube-sc):                 *)
(*   - the effect pipeline executor   video_effect_service.apply_effects   *)
(*   - the batch loop                 main.process_shorts_with_progress    *)
(*   - the segment timestamp resolver shorts_generator._add_timestamps_... *)
(*   - the caption timing engine      CaptionsEffect._calculate_word_...   *)
(*   - the caption document and the drawtext filters of CaptionsEffect     *)
(*   - the two caption wrappers       _create_strict_two_lines,            *)
(*                                    _wrap_text_for_mobile                *)
(*   - the aspect-ratio reframe       VideoRatioConversionEffect.apply     *)
(*   - the opening transition filters Blur/PixelateFilterStartVideoEffect  *)
(*   - the speed effect               IncreaseVideoSpeedEffect.apply       *)
(*   - the effect list                VideoEffectsStrategy.create_effects  *)
(*   - two executions side by side    apply_effects, CaptionsEffect        *)
(*   - the clip cutter                video_cutter.create_short_video      *)
(*   - the cached stages              retrieve_audio, speech_to_text,      *)
(*                                    generate_youtube_shorts_...          *)
(* Times are fixed-point integers in microseconds; a float division is a   *)
(* rounded (inexact) integer division. Text is a sequence of characters.   *)
(***************************************************************************)
EXTENDS Integers, Sequences, FiniteSets, TLC

VARIABLES
    \* ---- apply_effects (video_effect_service.py) ----
    effects,          \* strategy.create_effects(): the ordered effect list
    debug,            \* the debug flag
    name_parts,       \* number of "."-separated parts of video_path.name
    video_path,       \* the source clip
    execution_dir,    \* output_dir / str(datetime.now())
    ex_pc,            \* "idle" | "ready" | "applying" | "materialized" | "done" | "raised"
    ex_i,             \* the loop index i
    curr_video_path,
    output_file,
    old_video_files,
    applied,          \* one entry per started step: what ffmpeg.input read, what is written
    files,            \* the files that exist on disk
    unlink_failed,    \* old files whose unlink raised (logged, skipped)
    ex_result,        \* the returned path
    ex_error,         \* the exception that left apply_effects
    clock,            \* datetime.now()
    \* ---- process_shorts_with_progress (main.py) ----
    num_shorts,       \* len(recommendation.shorts)
    upload_enabled,   \* youtube_service is not None
    b_pc,             \* "off" | "cut" | "effects" | "replace" | "upload" | "update" | "returned" | "aborted"
    b_i,              \* the loop index i
    b_started,        \* the shorts whose iteration has begun
    b_completed,      \* the shorts whose iteration reached pbar.update(1)
    b_failed,         \* the short whose step raised, -1 when none
    \* ---- _add_timestamps_to_shorts (shorts_generator.py) ----
    segments,         \* speech.segments
    cands,            \* analysis.shorts
    r_pc,             \* "off" | "loop" | "returned" | "raised"
    r_k,              \* how many entries of analysis.shorts the loop has taken
    r_shorts,         \* the list shorts
    \* ---- CaptionsEffect._generate_ass_file, lines 624-633 ----
    cap_pc,           \* "off" | "done" | "raised"
    cap_short,        \* which resolved short the effect was built for
    cap_windows,      \* the local (start, end) of each captioned segment
    \* ---- CaptionsEffect._calculate_word_timings ----
    t_text,           \* the argument text, a sequence of characters
    t_start,          \* the argument start_time
    t_end,            \* the argument end_time
    t_pc,             \* "off" | "call" | "loop" | "returned"
    t_words,          \* words
    t_weights,        \* word_weights
    t_i,              \* the loop index i
    t_current,        \* current_time
    t_timings,        \* word_timings, then the returned list
    \* ---- CaptionsEffect: __init__ (_generate_ass_file), then apply ----
    c_speech,         \* youtube_short.speech
    c_has_start,      \* whether youtube_short has an attribute start_time
    c_offset,         \* youtube_short.start_time when it has one
    c_highlighting,   \* enable_word_highlighting
    c_max,            \* max_chars_per_line
    c_pc,             \* "off" | "ass" | "apply" | "draw" | "done" | "raised"
    c_j,              \* how many segments the running loop has taken
    c_events,         \* subs.events
    c_filters,        \* the drawtext filters put on the video stream
    \* ---- one call of _create_strict_two_lines and of _wrap_text_for_mobile ----
    w_text,           \* the argument text
    w_max,            \* max_chars_per_line
    w_pc,             \* "off" | "call" | "returned": _create_strict_two_lines
    w_lines,          \* the tuple it returned
    m_pc,             \* "off" | "call" | "returned": _wrap_text_for_mobile
    m_text,           \* the string it returned
    \* ---- VideoRatioConversionEffect.apply: the scale and pad filters ----
    f_source,         \* <<iw, ih>> of the input picture
    f_target,         \* <<target_w, target_h>>
    f_pc,             \* "off" | "input" | "scaled" | "padded"
    f_scaled,         \* <<width, height>> the scale filter puts out
    f_pad,            \* the pad filter: canvas size and the picture's offset
    \* ---- BlurFilterStartVideoEffect.apply, PixelateFilterStartVideoEffect.apply ----
    x_kind,           \* "blur" | "pixelate"
    x_strength,       \* blur_strength / pixelation_level
    x_duration,       \* duration
    x_steps,          \* steps
    x_length,         \* the length of the input video
    x_pc,             \* "off" | "apply" | "loop" | "returned"
    x_i,              \* the loop index i
    x_segments,       \* the parts handed to ffmpeg.concat, in order
    \* ---- IncreaseVideoSpeedEffect.apply ----
    s_factor,         \* speed_factor, in hundredths
    s_fps,            \* fps
    s_pc,             \* "off" | "apply" | "setpts" | "atempo" | "fps" | "returned"
    s_video,          \* the filters put on the video stream, in order
    s_audio,          \* the filters put on the audio stream, in order
    \* ---- VideoEffectsStrategy.create_effects (strategies.py) ----
    st_index,         \* short_index
    st_speed,         \* speed_factor, in hundredths
    st_pc,            \* "off" | "create" | "captions" | "returned" | "raised"
    st_built,         \* the effects constructed so far, in list order
    \* ---- two executions of apply_effects side by side ----
    p_debug,          \* debug
    p_short,          \* per execution: the short_index of its clip
    p_clock,          \* what datetime.now() returns at this moment
    p_pc,             \* per execution: "off" | "idle" | "create" | "ready" |
                      \* "applying" | "materialized" | "done" | "raised"
    p_dir,            \* per execution: execution_dir
    p_i,              \* per execution: the loop index i
    p_out,            \* per execution: output_file
    p_old,            \* per execution: old_video_files
    p_ops,            \* the file operations done so far: who, what, which path
    \* ---- video_cutter.create_short_video ----
    k_index,          \* short_index
    k_has_times,      \* the short carries start_time and end_time
    k_start,          \* short.start_time, in microseconds
    k_end,            \* short.end_time, in microseconds
    k_refresh,        \* settings.refresh, as main.py passes it
    k_pc,             \* "off" | "call" | "subtitle" | "run" | "ran" | "returned" | "raised"
    k_name,           \* output_filename
    k_files,          \* the files in output_dir
    k_existed,        \* the files that were in output_dir at the call
    k_runs,           \* how many times ffmpeg was run
    \* ---- the cached stages: retrieve_audio, convert_speech_to_text,
    \*      generate_youtube_shorts_recommendations ----
    h_stage,          \* "audio" | "speech" | "shorts": the stage called
    h_refresh,        \* refresh / settings.refresh
    h_video,          \* video_path.exists()
    h_ffmpeg,         \* an ffmpeg executable is found
    h_file,           \* the content of output_file, NoFile when it is absent
    h_before,         \* the content of output_file at the call
    h_pc,             \* "off" | "call" | "checked" | "returned" | "raised"
    h_calls,          \* how often the run called ffmpeg / Whisper / the LLM
    h_writes,         \* how often the run wrote output_file
    h_result,         \* what the stage returned
    h_run,            \* 1: the first run, 2: the run that follows it
    h_first           \* what the first run returned

exVars == <<effects, debug, name_parts, video_path, execution_dir, ex_pc, ex_i,
            curr_video_path, output_file, old_video_files, applied, files,
            unlink_failed, ex_result, ex_error, clock>>
bVars == <<num_shorts, upload_enabled, b_pc, b_i, b_started, b_completed, b_failed>>
rVars == <<segments, cands, r_pc, r_k, r_shorts, cap_pc, cap_short, cap_windows>>
tVars == <<t_text, t_start, t_end, t_pc, t_words, t_weights, t_i, t_current, t_timings>>
cVars == <<c_speech, c_has_start, c_offset, c_highlighting, c_max, c_pc, c_j,
           c_events, c_filters>>
wVars == <<w_text, w_max, w_pc, w_lines, m_pc, m_text>>
fVars == <<f_source, f_target, f_pc, f_scaled, f_pad>>
xVars == <<x_kind, x_strength, x_duration, x_steps, x_length, x_pc, x_i, x_segments>>
sVars == <<s_factor, s_fps, s_pc, s_video, s_audio>>
stVars == <<st_index, st_speed, st_pc, st_built>>
pVars == <<p_debug, p_short, p_clock, p_pc, p_dir, p_i, p_out, p_old, p_ops>>
kVars == <<k_index, k_has_times, k_start, k_end, k_refresh, k_pc, k_name,
          k_files, k_existed, k_runs>>
hVars == <<h_stage, h_refresh, h_video, h_ffmpeg, h_file, h_before, h_pc, h_calls,
          h_writes, h_result, h_run, h_first>>
oVars == <<sVars, stVars, pVars, kVars, hVars>>
gVars == <<cVars, wVars, fVars, xVars, oVars>>
vars == <<exVars, bVars, rVars, tVars, gVars>>

\* What the actions of one part leave alone: the variables of all other parts.
mainVars == <<exVars, bVars, rVars, tVars>>
sRest == <<mainVars, cVars, wVars, fVars, xVars, stVars, pVars, kVars, hVars>>
stRest == <<mainVars, wVars, fVars, xVars, sVars, pVars, kVars, hVars>>
pRest == <<mainVars, cVars, wVars, fVars, xVars, sVars, stVars, kVars, hVars>>
kRest == <<mainVars, cVars, wVars, fVars, xVars, sVars, stVars, pVars, hVars>>
hRest == <<mainVars, cVars, wVars, fVars, xVars, sVars, stVars, pVars, kVars>>

\* ------------------------------------------------------------------ bounds
MaxEffects == 3
MaxShorts == 2

\* ------------------------------------------------------------------ paths
\* A path is a directory and a file name. Directory 0 is the data directory
\* (videos_output_dir); directory t > 0 is the execution directory created at
\* time t. A name is <<video name, tag, index>>.
EffectClasses == {"TextEffect", "CaptionsEffect"}

NoPath == [dir |-> -1, name |-> <<0, "None", 0>>]

\* video_cutter.create_short_video: short_{index+1}_... .mp4 in output_dir
CutClipPath(short_index) == [dir |-> 0, name |-> <<short_index + 1, "cut", 0>>]

\* A file name that leaves the video name out.
_create_file_name_noName(video_name, effect, index) == <<0, effect, index>>

\* f"{video_name}_{effect.__class__.__name__}_{index}.{video_ext}"
_create_file_name(video_name, effect, index) == <<video_name, effect, index>>

OutputPath(dir, video_name, effect, index) ==
    [dir |-> dir, name |-> _create_file_name(video_name, effect, index)]

SeqsUpTo(S, n) == UNION {[1..k -> S] : k \in 0..n}

\* ------------------------------------------------------------ apply_effects
\* What the loop head decides: another effect to apply, or the loop is over.
NextIndex == IF ex_pc = "ready" THEN 0 ELSE ex_i + 1

AtLoopHead == ex_pc \in {"ready", "materialized"}

\* lines 54-63: split the name, make the execution directory, set the locals
Setup ==
    /\ ex_pc = "idle"
    /\ IF name_parts # 2
       THEN \* video_name, video_ext = video_path.name.split(".") raises ValueError
            /\ ex_pc' = "raised"
            /\ ex_error' = "ValueError"
            /\ UNCHANGED <<execution_dir, clock, curr_video_path, output_file,
                           old_video_files>>
       ELSE /\ ex_pc' = "ready"
            /\ clock' = clock + 1
            /\ execution_dir' = clock + 1
            /\ curr_video_path' = video_path
            /\ output_file' = NoPath
            /\ old_video_files' = <<>>
            /\ UNCHANGED ex_error
    /\ UNCHANGED <<effects, debug, name_parts, video_path, ex_i, applied, files,
                   unlink_failed, ex_result>>
    /\ UNCHANGED <<bVars, rVars, tVars, gVars>>

\* line 68: ffmpeg.input(str(curr_video_path), fflags="+genpts")
StepInput_source == video_path

StepInput == curr_video_path

\* lines 65-76: one pass of the loop body up to the render call
StartEffect ==
    /\ AtLoopHead
    /\ NextIndex < Len(effects)
    /\ LET i == NextIndex
           out == OutputPath(execution_dir, video_path.name[1], effects[i + 1], i)
       IN /\ ex_i' = i
          /\ old_video_files' = IF output_file # NoPath
                                THEN Append(old_video_files, output_file)
                                ELSE old_video_files
          /\ output_file' = out
          /\ applied' = Append(applied, [step |-> i, input |-> StepInput,
                                          output |-> out,
                                          input_exists |-> StepInput \in files])
    /\ ex_pc' = "applying"
    /\ UNCHANGED <<effects, debug, name_parts, video_path, execution_dir,
                   curr_video_path, files, unlink_failed, ex_result, ex_error, clock>>
    /\ UNCHANGED <<bVars, rVars, tVars, gVars>>

\* lines 77-78: _write_output_video returned, the file is written
RenderOk ==
    /\ ex_pc = "applying"
    /\ files' = files \cup {output_file}
    /\ curr_video_path' = output_file
    /\ ex_pc' = "materialized"
    /\ UNCHANGED <<effects, debug, name_parts, video_path, execution_dir, ex_i,
                   output_file, old_video_files, applied, unlink_failed,
                   ex_result, ex_error, clock>>
    /\ UNCHANGED <<bVars, rVars, tVars, gVars>>

\* A render failure that cleans up the way line 81 does on success.
RenderFail_cleanup ==
    /\ ex_pc = "applying"
    /\ ex_pc' = "raised"
    /\ ex_error' = "RenderFailure"
    /\ files' = files \ {old_video_files[k] : k \in DOMAIN old_video_files}
    /\ UNCHANGED <<effects, debug, name_parts, video_path, execution_dir, ex_i,
                   curr_video_path, output_file, old_video_files, applied,
                   unlink_failed, ex_result, clock>>
    /\ UNCHANGED <<bVars, rVars, tVars, gVars>>

\* lines 76-77: effect.apply or ffmpeg's run raised; nothing in apply_effects
\* catches it, so the loop and the cleanup after it are skipped
RenderFail ==
    /\ ex_pc = "applying"
    /\ ex_pc' = "raised"
    /\ ex_error' = "RenderFailure"
    /\ UNCHANGED <<effects, debug, name_parts, video_path, execution_dir, ex_i,
                   curr_video_path, output_file, old_video_files, applied, files,
                   unlink_failed, ex_result, clock>>
    /\ UNCHANGED <<bVars, rVars, tVars, gVars>>

\* A cleanup that also unlinks the file written last.
_delete_old_files_all(old, failing) ==
    files \ (({old[k] : k \in DOMAIN old} \cup {output_file}) \ failing)

\* lines 40-45: unlink each old file; a failing unlink is logged and skipped
_delete_old_files(old, failing) == files \ ({old[k] : k \in DOMAIN old} \ failing)

\* lines 80-83: the loop is over: clean up unless debug, return curr_video_path
Finish ==
    /\ AtLoopHead
    /\ NextIndex >= Len(effects)
    /\ IF ~debug
       THEN \E failing \in SUBSET {old_video_files[k] : k \in DOMAIN old_video_files} :
               /\ files' = _delete_old_files(old_video_files, failing)
               /\ unlink_failed' = failing
       ELSE UNCHANGED <<files, unlink_failed>>
    /\ ex_result' = curr_video_path
    /\ ex_pc' = "done"
    /\ UNCHANGED <<effects, debug, name_parts, video_path, execution_dir, ex_i,
                   curr_video_path, output_file, old_video_files, applied,
                   ex_error, clock>>
    /\ UNCHANGED <<bVars, rVars, tVars, gVars>>

\* The parts of the program a specification does not run.
BatchOff ==
    /\ num_shorts = 0
    /\ upload_enabled = FALSE
    /\ b_pc = "off"
    /\ b_i = 0
    /\ b_started = {}
    /\ b_completed = {}
    /\ b_failed = -1

ResolveOff ==
    /\ segments = <<>>
    /\ cands = <<>>
    /\ r_pc = "off"
    /\ r_k = 0
    /\ r_shorts = <<>>
    /\ cap_pc = "off"
    /\ cap_short = 0
    /\ cap_windows = <<>>

TimingOff ==
    /\ t_text = <<>>
    /\ t_start = 0
    /\ t_end = 0
    /\ t_pc = "off"
    /\ t_words = <<>>
    /\ t_weights = <<>>
    /\ t_i = 0
    /\ t_current = 0
    /\ t_timings = <<>>

CaptionOff ==
    /\ c_speech = <<>>
    /\ c_has_start = FALSE
    /\ c_offset = 0
    /\ c_highlighting = FALSE
    /\ c_max = 0
    /\ c_pc = "off"
    /\ c_j = 0
    /\ c_events = <<>>
    /\ c_filters = <<>>

WrapOff ==
    /\ w_text = <<>>
    /\ w_max = 0
    /\ w_pc = "off"
    /\ w_lines = <<>>
    /\ m_pc = "off"
    /\ m_text = <<>>

ReframeOff ==
    /\ f_source = <<0, 0>>
    /\ f_target = <<0, 0>>
    /\ f_pc = "off"
    /\ f_scaled = <<0, 0>>
    /\ f_pad = <<>>

TransitionOff ==
    /\ x_kind = "none"
    /\ x_strength = 0
    /\ x_duration = 0
    /\ x_steps = 0
    /\ x_length = 0
    /\ x_pc = "off"
    /\ x_i = 0
    /\ x_segments = <<>>

SpeedOff ==
    /\ s_factor = 0
    /\ s_fps = 0
    /\ s_pc = "off"
    /\ s_video = <<>>
    /\ s_audio = <<>>

StrategyOff ==
    /\ st_index = 0
    /\ st_speed = 0
    /\ st_pc = "off"
    /\ st_built = <<>>

ParallelOff ==
    /\ p_debug = FALSE
    /\ p_short = <<>>
    /\ p_clock = 0
    /\ p_pc = <<>>
    /\ p_dir = <<>>
    /\ p_i = <<>>
    /\ p_out = <<>>
    /\ p_old = <<>>
    /\ p_ops = {}

CutterOff ==
    /\ k_index = 0
    /\ k_has_times = FALSE
    /\ k_start = 0
    /\ k_end = 0
    /\ k_refresh = FALSE
    /\ k_pc = "off"
    /\ k_name = <<>>
    /\ k_files = {}
    /\ k_existed = {}
    /\ k_runs = 0

CacheOff ==
    /\ h_stage = "none"
    /\ h_refresh = FALSE
    /\ h_video = FALSE
    /\ h_ffmpeg = FALSE
    /\ h_file = <<>>
    /\ h_before = <<>>
    /\ h_pc = "off"
    /\ h_calls = 0
    /\ h_writes = 0
    /\ h_result = <<>>
    /\ h_run = 0
    /\ h_first = <<>>

OtherOff == SpeedOff /\ StrategyOff /\ ParallelOff /\ CutterOff /\ CacheOff

GraphOff == CaptionOff /\ WrapOff /\ ReframeOff /\ TransitionOff /\ OtherOff

ExecOff ==
    /\ effects = <<>>
    /\ debug = FALSE
    /\ name_parts = 2
    /\ video_path = NoPath
    /\ files = {}
    /\ execution_dir = 0
    /\ clock = 0
    /\ ex_pc = "off"
    /\ ex_i = 0
    /\ curr_video_path = NoPath
    /\ output_file = NoPath
    /\ old_video_files = <<>>
    /\ applied = <<>>
    /\ unlink_failed = {}
    /\ ex_result = NoPath
    /\ ex_error = "none"

ExecNext == Setup \/ StartEffect \/ RenderOk \/ RenderFail \/ Finish

\* One call of apply_effects on a clip that exists, for every effect list,
\* debug flag and shape of file name.
ExecInit ==
    /\ effects \in SeqsUpTo(EffectClasses, MaxEffects)
    /\ debug \in BOOLEAN
    /\ name_parts \in 1..3
    /\ video_path = CutClipPath(0)
    /\ files = {CutClipPath(0)}
    /\ execution_dir = 0
    /\ clock = 0
    /\ ex_pc = "idle"
    /\ ex_i = 0
    /\ curr_video_path = NoPath
    /\ output_file = NoPath
    /\ old_video_files = <<>>
    /\ applied = <<>>
    /\ unlink_failed = {}
    /\ ex_result = NoPath
    /\ ex_error = "none"
    /\ BatchOff
    /\ ResolveOff
    /\ TimingOff
    /\ GraphOff

Spec == ExecInit /\ [][ExecNext]_vars

\* --------------------------------------------- process_shorts_with_progress
\* The loop of main.py lines 35-95 holds no try/except: an exception raised by
\* any call of an iteration leaves the function.

\* lines 38-60: create_short_video returned the cut clip; apply_effects is
\* called on it
CutOk ==
    /\ b_pc = "cut"
    /\ b_started' = b_started \cup {b_i}
    /\ video_path' = CutClipPath(b_i)
    /\ files' = files \cup {CutClipPath(b_i)}
    /\ b_pc' = "effects"
    /\ ex_pc' = "idle"
    /\ ex_i' = 0
    /\ applied' = <<>>
    /\ unlink_failed' = {}
    /\ ex_result' = NoPath
    /\ ex_error' = "none"
    /\ UNCHANGED <<effects, debug, name_parts, execution_dir, curr_video_path,
                   output_file, old_video_files, clock>>
    /\ UNCHANGED <<num_shorts, upload_enabled, b_i, b_completed, b_failed>>
    /\ UNCHANGED <<rVars, tVars, gVars>>

\* lines 38-45: create_short_video raised (video_cutter.py lines 76-81 re-raise)
CutFail ==
    /\ b_pc = "cut"
    /\ b_started' = b_started \cup {b_i}
    /\ b_failed' = b_i
    /\ b_pc' = "aborted"
    /\ UNCHANGED exVars
    /\ UNCHANGED <<num_shorts, upload_enabled, b_i, b_completed>>
    /\ UNCHANGED <<rVars, tVars, gVars>>

\* lines 53-60: apply_effects raised
EffectsRaised ==
    /\ b_pc = "effects"
    /\ ex_pc = "raised"
    /\ b_failed' = b_i
    /\ b_pc' = "aborted"
    /\ UNCHANGED exVars
    /\ UNCHANGED <<num_shorts, upload_enabled, b_i, b_started, b_completed>>
    /\ UNCHANGED <<rVars, tVars, gVars>>

\* A hand-over to the upload that unlinks the cut clip and leaves the final
\* clip where the executor wrote it.
ReplaceCut_noRename ==
    /\ b_pc = "effects"
    /\ ex_pc = "done"
    /\ files' = files \ {video_path}
    /\ b_pc' = IF upload_enabled THEN "upload" ELSE "update"
    /\ UNCHANGED <<effects, debug, name_parts, video_path, execution_dir, ex_pc,
                   ex_i, curr_video_path, output_file, old_video_files, applied,
                   unlink_failed, ex_result, ex_error, clock>>
    /\ UNCHANGED <<num_shorts, upload_enabled, b_i, b_started, b_completed, b_failed>>
    /\ UNCHANGED <<rVars, tVars, gVars>>

\* lines 61-68: video_path.unlink(missing_ok=True); final_path.rename(video_path).
\* The rename raises FileNotFoundError when final_path is gone.
ReplaceCut ==
    /\ b_pc = "effects"
    /\ ex_pc = "done"
    /\ LET unlinked == files \ {video_path}
       IN IF ex_result \in unlinked
          THEN /\ files' = (unlinked \ {ex_result}) \cup {video_path}
               /\ b_pc' = IF upload_enabled THEN "upload" ELSE "update"
               /\ UNCHANGED b_failed
          ELSE /\ files' = unlinked
               /\ b_pc' = "aborted"
               /\ b_failed' = b_i
    /\ UNCHANGED <<effects, debug, name_parts, video_path, execution_dir, ex_pc,
                   ex_i, curr_video_path, output_file, old_video_files, applied,
                   unlink_failed, ex_result, ex_error, clock>>
    /\ UNCHANGED <<num_shorts, upload_enabled, b_i, b_started, b_completed>>
    /\ UNCHANGED <<rVars, tVars, gVars>>

\* lines 71-87: youtube_service.upload_video returned
UploadOk ==
    /\ b_pc = "upload"
    /\ b_pc' = "update"
    /\ UNCHANGED exVars
    /\ UNCHANGED <<num_shorts, upload_enabled, b_i, b_started, b_completed, b_failed>>
    /\ UNCHANGED <<rVars, tVars, gVars>>

\* lines 71-87: youtube_service.upload_video raised (youtube.py lines 78, 121)
UploadFail ==
    /\ b_pc = "upload"
    /\ b_failed' = b_i
    /\ b_pc' = "aborted"
    /\ UNCHANGED exVars
    /\ UNCHANGED <<num_shorts, upload_enabled, b_i, b_started, b_completed>>
    /\ UNCHANGED <<rVars, tVars, gVars>>

\* lines 89-95 and the loop head of line 35
Update ==
    /\ b_pc = "update"
    /\ b_completed' = b_completed \cup {b_i}
    /\ b_i' = b_i + 1
    /\ b_pc' = IF b_i + 1 < num_shorts THEN "cut" ELSE "returned"
    /\ UNCHANGED exVars
    /\ UNCHANGED <<num_shorts, upload_enabled, b_started, b_failed>>
    /\ UNCHANGED <<rVars, tVars, gVars>>

BatchNext ==
    \/ CutOk \/ CutFail \/ EffectsRaised \/ ReplaceCut \/ UploadOk \/ UploadFail
    \/ Update
    \/ Setup \/ StartEffect \/ RenderOk \/ RenderFail \/ Finish

\* One run of process_shorts_with_progress, for every number of shorts, effect
\* list, debug flag and upload setting. The cut clips are named
\* short_{i+1}_{start}s-{end}s.mp4: one dot.
BatchInit ==
    /\ num_shorts \in 0..MaxShorts
    /\ upload_enabled \in BOOLEAN
    /\ effects \in SeqsUpTo(EffectClasses, MaxEffects)
    /\ debug \in BOOLEAN
    /\ name_parts = 2
    /\ b_pc = IF num_shorts > 0 THEN "cut" ELSE "returned"
    /\ b_i = 0
    /\ b_started = {}
    /\ b_completed = {}
    /\ b_failed = -1
    /\ video_path = NoPath
    /\ files = {}
    /\ execution_dir = 0
    /\ clock = 0
    /\ ex_pc = "off"
    /\ ex_i = 0
    /\ curr_video_path = NoPath
    /\ output_file = NoPath
    /\ old_video_files = <<>>
    /\ applied = <<>>
    /\ unlink_failed = {}
    /\ ex_result = NoPath
    /\ ex_error = "none"
    /\ ResolveOff
    /\ TimingOff
    /\ GraphOff

SpecBatch == BatchInit /\ [][BatchNext]_vars

\* ------------------------------------------------- _add_timestamps_to_shorts
MaxSegs == 2
MaxCands == 2

\* The transcript: n segments, time-ordered, each with end_time > start_time,
\* of alternating length (0.25 s, 0.05 s) and 0.05 s apart, in microseconds.
SegmentAt(k) ==
    LET start == 100000 + 200000 * (k - 1) + 100000 * ((k - 1) \div 2)
    IN [start_time |-> start,
        end_time |-> start + (IF k % 2 = 1 THEN 250000 ELSE 50000),
        text |-> k]

Transcript(n) == [k \in 1..n |-> SegmentAt(k)]

\* What the language model may answer: any pair of indices, in range or not.
CandIndexes == -1..MaxSegs

Candidates == [start_segment_index : CandIndexes, end_segment_index : CandIndexes]

\* Python's list[i]: negative indices count from the end; out of range raises
PyIndexOk(seq, i) == -Len(seq) <= i /\ i < Len(seq)

PyIndex(seq, i) == seq[(IF i < 0 THEN i + Len(seq) ELSE i) + 1]

\* Python's list[a:b]
PyClamp(seq, a) ==
    LET n == Len(seq)
        x == IF a < 0 THEN a + n ELSE a
    IN IF x < 0 THEN 0 ELSE IF x > n THEN n ELSE x

PySlice(seq, a, b) == SubSeq(seq, PyClamp(seq, a) + 1, PyClamp(seq, b))

\* models.py lines 24-53: the fields YouTubeShortWithSpeech declares (those of
\* YouTubeShort that the model carries, and speech)
DeclaredFields == {"start_segment_index", "end_segment_index", "speech"}

\* pydantic's model_validate: a key the model does not declare is ignored
\* (BaseModel's default, extra = "ignore"; models.py sets no model_config)
ModelValidate(payload) ==
    [f \in (DOMAIN payload) \cap DeclaredFields |-> payload[f]]

\* lines 304-308 with the bound test on the end index off by one
InvalidRange_offByOne(short) ==
    \/ short.start_segment_index < 0
    \/ short.end_segment_index > Len(segments)
    \/ short.start_segment_index > short.end_segment_index

\* lines 304-308
InvalidRange(short) ==
    \/ short.start_segment_index < 0
    \/ short.end_segment_index >= Len(segments)
    \/ short.start_segment_index > short.end_segment_index

\* lines 314-323: the dict handed to model_validate
ResolvedPayload(short) ==
    [start_segment_index |-> short.start_segment_index,
     end_segment_index |-> short.end_segment_index,
     speech |-> PySlice(segments, short.start_segment_index,
                        short.end_segment_index + 1),
     start_time |-> PyIndex(segments, short.start_segment_index).start_time,
     end_time |-> PyIndex(segments, short.end_segment_index).end_time]

\* lines 303-312: the range is invalid: warn and continue
ResolveSkip ==
    /\ r_pc = "loop"
    /\ r_k < Len(cands)
    /\ InvalidRange(cands[r_k + 1])
    /\ r_k' = r_k + 1
    /\ UNCHANGED <<segments, cands, r_pc, r_shorts, cap_pc, cap_short, cap_windows>>
    /\ UNCHANGED <<exVars, bVars, tVars, gVars>>

\* lines 314-324: build the short with its speech; speech.segments[i] raises
\* IndexError when i is out of range
ResolveAppend ==
    /\ r_pc = "loop"
    /\ r_k < Len(cands)
    /\ ~InvalidRange(cands[r_k + 1])
    /\ LET short == cands[r_k + 1]
       IN IF /\ PyIndexOk(segments, short.start_segment_index)
             /\ PyIndexOk(segments, short.end_segment_index)
          THEN /\ r_shorts' = Append(r_shorts, ModelValidate(ResolvedPayload(short)))
               /\ r_k' = r_k + 1
               /\ UNCHANGED r_pc
          ELSE /\ r_pc' = "raised"
               /\ UNCHANGED <<r_shorts, r_k>>
    /\ UNCHANGED <<segments, cands, cap_pc, cap_short, cap_windows>>
    /\ UNCHANGED <<exVars, bVars, tVars, gVars>>

\* lines 326-330
ResolveReturn ==
    /\ r_pc = "loop"
    /\ r_k = Len(cands)
    /\ r_pc' = "returned"
    /\ UNCHANGED <<segments, cands, r_k, r_shorts, cap_pc, cap_short, cap_windows>>
    /\ UNCHANGED <<exVars, bVars, tVars, gVars>>

\* video_effect.py lines 628-633: a segment's window on the clip's timeline
LocalWindow(segment, offset_time) ==
    LET start_time == IF segment.start_time - offset_time > 0
                      THEN segment.start_time - offset_time ELSE 0
        end_time == IF segment.end_time - offset_time > start_time + 100000
                    THEN segment.end_time - offset_time ELSE start_time + 100000
    IN [start |-> start_time, end |-> end_time]

\* video_effect.py lines 624-633: the captions effect built for a resolved
\* short walks its speech and reads self.youtube_short.start_time, which raises
\* AttributeError on an object without that attribute (every segment of the
\* transcript has text, so the first one already reads it)
LocalizeSpeech ==
    /\ r_pc = "returned"
    /\ cap_pc = "off"
    /\ \E k \in DOMAIN r_shorts :
          /\ cap_short' = k
          /\ IF r_shorts[k].speech # <<>> /\ "start_time" \notin DOMAIN r_shorts[k]
             THEN /\ cap_pc' = "raised"
                  /\ UNCHANGED cap_windows
             ELSE /\ cap_pc' = "done"
                  /\ cap_windows' =
                        [j \in DOMAIN r_shorts[k].speech |->
                            LocalWindow(r_shorts[k].speech[j], r_shorts[k].start_time)]
    /\ UNCHANGED <<segments, cands, r_pc, r_k, r_shorts>>
    /\ UNCHANGED <<exVars, bVars, tVars, gVars>>

ResolveNext == ResolveSkip \/ ResolveAppend \/ ResolveReturn \/ LocalizeSpeech

\* One call of _add_timestamps_to_shorts, for every transcript length and every
\* answer of the language model.
ResolveInit ==
    /\ \E n \in 0..MaxSegs : segments = Transcript(n)
    /\ cands \in SeqsUpTo(Candidates, MaxCands)
    /\ r_pc = "loop"
    /\ r_k = 0
    /\ r_shorts = <<>>
    /\ cap_pc = "off"
    /\ cap_short = 0
    /\ cap_windows = <<>>
    /\ ExecOff
    /\ BatchOff
    /\ TimingOff
    /\ GraphOff

SpecResolve == ResolveInit /\ [][ResolveNext]_vars

\* -------------------------------------------------- _calculate_word_timings
MaxTextLen == 5

\* Characters: a letter, a punctuation mark of ".,!?;:", white space.
Alphabet == {"a", ".", " "}

Punctuation == {"."}

Whitespace == {" "}

\* The arguments tried: start_time and end_time - start_time, in microseconds.
StartTimes == {0, 250000}

Durations == {-100000, 100000, 300000, 1000000}

\* line 354: segment_duration < 0.3
MinHighlightDuration == 300000

RECURSIVE SplitFrom(_, _, _, _)
SplitFrom(text, i, word, acc) ==
    IF i > Len(text)
    THEN IF word # <<>> THEN Append(acc, word) ELSE acc
    ELSE IF text[i] \in Whitespace
         THEN SplitFrom(text, i + 1, <<>>, IF word # <<>> THEN Append(acc, word) ELSE acc)
         ELSE SplitFrom(text, i + 1, Append(word, text[i]), acc)

\* str.split(): the maximal runs of characters that are not white space
Split(text) == SplitFrom(text, 1, <<>>, <<>>)

RECURSIVE LStrip(_, _)
LStrip(word, chars) ==
    IF word # <<>> /\ Head(word) \in chars THEN LStrip(Tail(word), chars) ELSE word

RECURSIVE RStrip(_, _)
RStrip(word, chars) ==
    IF word # <<>> /\ word[Len(word)] \in chars
    THEN RStrip(SubSeq(word, 1, Len(word) - 1), chars)
    ELSE word

\* str.strip(chars): the characters of chars removed from both ends
Strip(word, chars) == RStrip(LStrip(word, chars), chars)

\* lines 361-364 with 0.1 per character in place of 0.08
WordWeight_tenth(word) ==
    100 + 10 * Len(Strip(word, Punctuation))
        + (IF \E k \in 1..Len(word) : word[k] \in Punctuation THEN 10 ELSE 0)

\* lines 361-364 without the punctuation term
WordWeight_noPunct(word) == 100 + 8 * Len(Strip(word, Punctuation))

\* lines 361-364, in hundredths: 1.0 + len(word.strip(".,!?;:")) * 0.08
\* + (0.1 if any(c in word for c in ".,!?;:") else 0)
WordWeight(word) ==
    100 + 8 * Len(Strip(word, Punctuation))
        + (IF \E k \in DOMAIN word : word[k] \in Punctuation THEN 10 ELSE 0)

RECURSIVE Sum(_)
Sum(seq) == IF seq = <<>> THEN 0 ELSE Head(seq) + Sum(Tail(seq))

\* line 374: (weight / total_weight) * segment_duration. The float quotient is
\* inexact; here it is rounded down to the microsecond.
WordDuration(weight, total_weight, segment_duration) ==
    (weight * segment_duration) \div total_weight

\* line 354 with the floor lowered to 0
TooShort_noFloor(segment_duration) == segment_duration < 0

\* line 354
TooShort(segment_duration) == segment_duration < MinHighlightDuration

\* lines 375-379 without the correction of the last word
WordEnd_uncorrected(i, current_time, word_duration) == current_time + word_duration

\* lines 375-379: the last word ends exactly at the segment's end
WordEnd(i, current_time, word_duration) ==
    IF i = Len(t_words) - 1 THEN t_end ELSE current_time + word_duration

\* lines 346-370: split, the two early returns, the weights
CalcEnter ==
    /\ t_pc = "call"
    /\ LET words == Split(t_text)
       IN /\ t_words' = words
          /\ IF words = <<>>
             THEN /\ t_timings' = <<>>
                  /\ t_pc' = "returned"
                  /\ UNCHANGED <<t_weights, t_current>>
             ELSE IF TooShort(t_end - t_start)
             THEN /\ t_timings' = <<[word |-> t_text, start |-> t_start, end |-> t_end]>>
                  /\ t_pc' = "returned"
                  /\ UNCHANGED <<t_weights, t_current>>
             ELSE /\ t_weights' = [k \in DOMAIN words |-> WordWeight(words[k])]
                  /\ t_current' = t_start
                  /\ t_pc' = "loop"
                  /\ UNCHANGED t_timings
    /\ UNCHANGED <<t_text, t_start, t_end, t_i>>
    /\ UNCHANGED <<exVars, bVars, rVars, gVars>>

\* lines 372-382: one pass of the loop over the words
WordStep ==
    /\ t_pc = "loop"
    /\ t_i < Len(t_words)
    /\ LET word_duration == WordDuration(t_weights[t_i + 1], Sum(t_weights), t_end - t_start)
           word_end_time == WordEnd(t_i, t_current, word_duration)
       IN /\ t_timings' = Append(t_timings, [word |-> t_words[t_i + 1],
                                              start |-> t_current,
                                              end |-> word_end_time])
          /\ t_current' = word_end_time
    /\ t_i' = t_i + 1
    /\ UNCHANGED <<t_text, t_start, t_end, t_pc, t_words, t_weights>>
    /\ UNCHANGED <<exVars, bVars, rVars, gVars>>

\* line 384
CalcReturn ==
    /\ t_pc = "loop"
    /\ t_i = Len(t_words)
    /\ t_pc' = "returned"
    /\ UNCHANGED <<t_text, t_start, t_end, t_words, t_weights, t_i, t_current, t_timings>>
    /\ UNCHANGED <<exVars, bVars, rVars, gVars>>

TimingNext == CalcEnter \/ WordStep \/ CalcReturn

\* the caption "Build three things fast" of the segment [10.0 s, 14.0 s]
ScenarioText ==
    <<"B", "u", "i", "l", "d", " ", "t", "h", "r", "e", "e", " ",
      "t", "h", "i", "n", "g", "s", " ", "f", "a", "s", "t">>

ScenarioStart == 10000000

ScenarioEnd == 14000000

\* One call of _calculate_word_timings, for every text and every time range tried.
\* and for the scenario.
TimingInit ==
    /\ \/ /\ t_text \in SeqsUpTo(Alphabet, MaxTextLen)
          /\ t_start \in StartTimes
          /\ \E d \in Durations : t_end = t_start + d
       \/ /\ t_text = ScenarioText
          /\ t_start = ScenarioStart
          /\ t_end = ScenarioEnd
    /\ t_pc = "call"
    /\ t_words = <<>>
    /\ t_weights = <<>>
    /\ t_i = 0
    /\ t_current = 0
    /\ t_timings = <<>>
    /\ ExecOff
    /\ BatchOff
    /\ ResolveOff
    /\ GraphOff

SpecTiming == TimingInit /\ [][TimingNext]_vars


\* ------------------------------------------------- caption text operators
\* The one-character ellipsis the wrappers append, the ASS line break, and
\* the two colour tags of _create_highlighted_text with the default colours
\* (highlight (255, 255, 0), dim (255, 255, 255), written as BGR).
Ellipsis == "..."

LineBreak == "\\N"

HighlightTag == "{\\c&H00FFFF&}"

DimTag == "{\\c&HFFFFFF&}"

Tags == {HighlightTag, DimTag}

RECURSIVE Join(_)
\* " ".join(words)
Join(words) ==
    IF words = <<>> THEN <<>>
    ELSE IF Len(words) = 1 THEN words[1]
    ELSE words[1] \o <<" ">> \o Join(Tail(words))

\* s[:n] for n >= 0
Take(s, n) == SubSeq(s, 1, IF n < Len(s) THEN n ELSE Len(s))

\* s[n:] for n >= 0
Drop(s, n) == SubSeq(s, n + 1, Len(s))

\* str.isalpha() and str.upper() on one character
IsAlpha(c) == c \in {"a", "b", "A", "B"}

Upper(c) == CASE c = "a" -> "A" [] c = "b" -> "B" [] OTHER -> c

\* lines 309-330: strip, then the first alphabetic character in upper case
_capitalize_sentence(text) ==
    IF text = <<>> THEN text
    ELSE LET stripped == Strip(text, Whitespace)
             alphas == {i \in 1..Len(stripped) : IsAlpha(stripped[i])}
         IN IF alphas = {} THEN stripped
            ELSE LET i == CHOOSE k \in alphas : \A m \in alphas : k <= m
                 IN [stripped EXCEPT ![i] = Upper(stripped[i])]

RECURSIVE WordTimingsFrom(_, _, _, _, _, _, _)
\* lines 372-382 as a function of the call's arguments
WordTimingsFrom(words, weights, i, current_time, start_time, end_time, acc) ==
    IF i = Len(words) THEN acc
    ELSE LET word_duration == WordDuration(weights[i + 1], Sum(weights),
                                           end_time - start_time)
             word_end_time == IF i = Len(words) - 1 THEN end_time
                              ELSE current_time + word_duration
         IN WordTimingsFrom(words, weights, i + 1, word_end_time, start_time, end_time,
                Append(acc, [word |-> words[i + 1], start |-> current_time,
                             end |-> word_end_time]))

\* lines 332-384: the list _calculate_word_timings returns
_calculate_word_timings(text, start_time, end_time) ==
    LET words == Split(text)
    IN IF words = <<>> THEN <<>>
       ELSE IF TooShort(end_time - start_time)
       THEN <<[word |-> text, start |-> start_time, end |-> end_time]>>
       ELSE WordTimingsFrom(words, [k \in DOMAIN words |-> WordWeight(words[k])],
                            0, start_time, start_time, end_time, <<>>)

\* lines 397-402 with the upper bound on the index off by one
NoHighlight_offByOne(enable_word_highlighting, words, highlight_index) ==
    \/ ~enable_word_highlighting
    \/ highlight_index < 0
    \/ highlight_index >= Len(words) - 1

\* lines 397-402: the text is returned without colour tags
NoHighlight(enable_word_highlighting, words, highlight_index) ==
    \/ ~enable_word_highlighting
    \/ highlight_index < 0
    \/ highlight_index >= Len(words)

\* lines 386-434: the words before, the highlighted word, the words after
_create_highlighted_text(enable_word_highlighting, words, highlight_index) ==
    IF NoHighlight(enable_word_highlighting, words, highlight_index)
    THEN Join(words)
    ELSE LET words_before == Take(words, highlight_index)
             highlighted_word == words[highlight_index + 1]
             words_after == Drop(words, highlight_index + 1)
             text_before == Join(words_before)
                            \o (IF words_before # <<>> THEN <<" ">> ELSE <<>>)
             text_after == (IF words_after # <<>> THEN <<" ">> ELSE <<>>)
                           \o Join(words_after)
         IN <<DimTag>> \o text_before \o <<HighlightTag>> \o highlighted_word
            \o <<DimTag>> \o text_after


RECURSIVE FitFrom_noSpace(_, _, _, _)
\* lines 533-542 without the character for the space between two words
FitFrom_noSpace(words, i, current_length, max_chars) ==
    IF i = Len(words) THEN i
    ELSE LET test_length == current_length + Len(words[i + 1])
         IN IF test_length <= max_chars
            THEN FitFrom_noSpace(words, i + 1, test_length, max_chars)
            ELSE i

RECURSIVE FitFrom(_, _, _, _)
\* lines 533-542 (and 547-555): how many leading words fit one line, each word
\* after the first costing one more character for the space
FitFrom(words, i, current_length, max_chars) ==
    IF i = Len(words) THEN i
    ELSE LET test_length == current_length + Len(words[i + 1])
                            + (IF current_length > 0 THEN 1 ELSE 0)
         IN IF test_length <= max_chars
            THEN FitFrom(words, i + 1, test_length, max_chars)
            ELSE i

FitCount(words, max_chars) == FitFrom(words, 0, 0, max_chars)

\* lines 556-571 with the ellipsis appended whether it fits or not
StrictOverflow_alwaysEllipsis(line2_words, fitted, max_chars) ==
    IF fitted > 0
    THEN Join(Take(line2_words, fitted)) \o <<Ellipsis>>
    ELSE LET word == line2_words[1]
         IN IF Len(word) <= max_chars THEN word
            ELSE Take(word, max_chars - 1) \o <<Ellipsis>>

\* lines 556-571: line2 when the word after the first `fitted` ones does not fit
StrictOverflow(line2_words, fitted, max_chars) ==
    IF fitted > 0
    THEN LET test_with_ellipsis == Join(Take(line2_words, fitted)) \o <<Ellipsis>>
         IN IF Len(test_with_ellipsis) <= max_chars
            THEN test_with_ellipsis
            ELSE Join(Take(line2_words, fitted))
    ELSE LET word == line2_words[1]
         IN IF Len(word) <= max_chars THEN word
            ELSE Take(word, max_chars - 1) \o <<Ellipsis>>

\* lines 544-574 with the second loop starting at the second remaining word
StrictLine2_fromSecond(line2_words, max_chars) ==
    IF line2_words = <<>> THEN <<>>
    ELSE LET rest == IF Len(line2_words) > 1 THEN Tail(line2_words) ELSE line2_words
             fitted == FitCount(rest, max_chars)
         IN IF fitted = Len(rest)
            THEN Join(rest)
            ELSE StrictOverflow(rest, fitted, max_chars)

\* lines 544-574: line2_text
StrictLine2(line2_words, max_chars) ==
    IF line2_words = <<>> THEN <<>>
    ELSE LET fitted == FitCount(line2_words, max_chars)
         IN IF fitted = Len(line2_words)
            THEN Join(line2_words)
            ELSE StrictOverflow(line2_words, fitted, max_chars)

\* lines 519-523: the stripped text has no words
StrictBlank(text) == Split(Strip(text, Whitespace)) = <<>>

\* lines 526-527: the stripped text fits one line
StrictFits(text, max_chars) == Len(Strip(text, Whitespace)) <= max_chars

\* lines 508-577: the tuple (line1, line2)
_create_strict_two_lines(text, max_chars) ==
    LET stripped == Strip(text, Whitespace)
        words == Split(stripped)
    IN IF StrictBlank(text) THEN <<<<>>, <<>>>>
       ELSE IF StrictFits(text, max_chars) THEN <<stripped, <<>>>>
       ELSE LET fitted == FitCount(words, max_chars)
                line1_words == Take(words, fitted)
                line2_words == Drop(words, fitted)
            IN <<Join(line1_words), StrictLine2(line2_words, max_chars)>>

\* line 448: "{\\c&H" in text
HasTag(text) == \E k \in 1..Len(text) : text[k] \in Tags

\* line 453: re.sub(r"\s+", " ", text.strip())
NormalizeSpaces(text) == Join(Split(text))

\* lines 477-498: line2 of _wrap_text_for_mobile from the remaining words
MobileLine2(remaining_words, max_chars) ==
    LET fitted == FitCount(remaining_words, max_chars)
        line2 == Join(Take(remaining_words, fitted))
    IN IF fitted = Len(remaining_words) THEN line2
       ELSE IF fitted = 0
       THEN LET remaining_word == remaining_words[1]
            IN IF Len(remaining_word) > max_chars - 1
               THEN Take(remaining_word, max_chars - 1) \o <<Ellipsis>>
               ELSE remaining_word
       ELSE IF Len(line2) < max_chars - 1 THEN line2 \o <<Ellipsis>> ELSE line2

\* lines 501-506
MobileResult(text, line1, line2) ==
    IF line1 # <<>> /\ line2 # <<>> THEN line1 \o <<LineBreak>> \o line2
    ELSE IF line1 # <<>> THEN line1
    ELSE text

\* lines 436-506: the text with at most one line break
_wrap_text_for_mobile(text, max_chars) ==
    IF HasTag(text) THEN text
    ELSE LET normal == NormalizeSpaces(text)
             words == Split(normal)
         IN IF Len(normal) <= max_chars THEN normal
            ELSE IF words = <<>> THEN normal
            ELSE LET fitted == FitCount(words, max_chars)
                     line1 == Join(Take(words, fitted))
                     line2 == MobileLine2(Drop(words, fitted), max_chars)
                 IN MobileResult(normal, line1, line2)


\* ------------------------------------------- CaptionsEffect: the document
MaxCapSegs == 2

\* The segment texts tried: empty, blank, one word, a sentence that fits four
\* characters, one that needs two lines, one whose first word is too long.
CaptionTexts ==
    { <<>>,
      <<" ">>,
      <<"a">>,
      <<"b", " ", "a", ".">>,
      <<" ", "a", "a", " ", "b", "b", " ", "a">>,
      <<"a", "a", "a", "a", "a", " ", "b">> }

\* A segment lasts 0.2 s (below the highlighting floor) or 1 s.
CaptionDurations == {200000, 1000000}

\* The k-th segment of the short's speech starts at k seconds.
CaptionSegment(k, duration, text) ==
    [start_time |-> 1000000 * k, end_time |-> 1000000 * k + duration, text |-> text]

CaptionSpeeches ==
    UNION {{[k \in 1..n |-> CaptionSegment(k, d[k], t[k])] :
              d \in [1..n -> CaptionDurations], t \in [1..n -> CaptionTexts]} :
           n \in 0..MaxCapSegs}

\* Two segments spoken in quick succession: the first lasts 0.05 s and the
\* second follows it 0.01 s later.
QuickSpeeches ==
    { <<[start_time |-> 1000000, end_time |-> 1050000, text |-> t[1]],
        [start_time |-> 1060000, end_time |-> 2000000, text |-> t[2]]>> :
      t \in [1..2 -> CaptionTexts] }

\* youtube_short.start_time: the start of the first segment, or half a
\* second later (the first window is then cut at 0).
CaptionOffsets == {1000000, 1500000}

\* max_chars_per_line: a narrow line and the default of line 271
CaptionBudgets == {4, 20}

\* lines 657-658 and 670-671: int(seconds * 1000)
ToMillis(t) == t \div 1000

\* lines 626 and 715 without the strip()
Blank_emptyOnly(text) == text = <<>>

\* lines 626 and 715: segment.text.strip() is empty
Blank(text) == Strip(text, Whitespace) = <<>>

\* Events that each end one millisecond early.
HighlightedEvents_shortened(segment, offset_time, max_chars) ==
    LET window == LocalWindow(segment, offset_time)
        capitalized_text == _capitalize_sentence(segment.text)
        word_timings == _calculate_word_timings(capitalized_text, window.start, window.end)
        words == Split(capitalized_text)
    IN [word_idx \in 1..Len(word_timings) |->
           [start |-> ToMillis(word_timings[word_idx].start),
            end |-> ToMillis(word_timings[word_idx].end) - 1,
            text |-> _wrap_text_for_mobile(
                         _create_highlighted_text(TRUE, words, word_idx - 1), max_chars)]]

\* lines 628-667: the events of one segment with word highlighting
HighlightedEvents(segment, offset_time, max_chars) ==
    LET window == LocalWindow(segment, offset_time)
        capitalized_text == _capitalize_sentence(segment.text)
        word_timings == _calculate_word_timings(capitalized_text, window.start, window.end)
        words == Split(capitalized_text)
    IN [word_idx \in 1..Len(word_timings) |->
           [start |-> ToMillis(word_timings[word_idx].start),
            end |-> ToMillis(word_timings[word_idx].end),
            text |-> _wrap_text_for_mobile(
                         _create_highlighted_text(TRUE, words, word_idx - 1), max_chars)]]

\* lines 628-639 and 668-680: the one event of a segment without highlighting
PlainEvent(segment, offset_time, max_chars) ==
    LET window == LocalWindow(segment, offset_time)
        capitalized_text == _capitalize_sentence(segment.text)
    IN [start |-> ToMillis(window.start),
        end |-> ToMillis(window.end),
        text |-> _wrap_text_for_mobile(capitalized_text, max_chars)]

AssSegment == c_speech[c_j + 1]

\* lines 625-626: a blank segment is passed over
AssSkipBlank ==
    /\ c_pc = "ass"
    /\ c_j < Len(c_speech)
    /\ Blank(AssSegment.text)
    /\ c_j' = c_j + 1
    /\ UNCHANGED <<c_speech, c_has_start, c_offset, c_highlighting, c_max, c_pc,
                   c_events, c_filters>>
    /\ UNCHANGED <<exVars, bVars, rVars, tVars, wVars, fVars, xVars, oVars>>

\* line 628: self.youtube_short.start_time raises AttributeError
AssRaise ==
    /\ c_pc = "ass"
    /\ c_j < Len(c_speech)
    /\ ~Blank(AssSegment.text)
    /\ ~c_has_start
    /\ c_pc' = "raised"
    /\ UNCHANGED <<c_speech, c_has_start, c_offset, c_highlighting, c_max, c_j,
                   c_events, c_filters>>
    /\ UNCHANGED <<exVars, bVars, rVars, tVars, wVars, fVars, xVars, oVars>>

\* lines 641-667: one event per word timing
AssHighlighted ==
    /\ c_pc = "ass"
    /\ c_j < Len(c_speech)
    /\ ~Blank(AssSegment.text)
    /\ c_has_start
    /\ c_highlighting
    /\ c_events' = c_events \o HighlightedEvents(AssSegment, c_offset, c_max)
    /\ c_j' = c_j + 1
    /\ UNCHANGED <<c_speech, c_has_start, c_offset, c_highlighting, c_max, c_pc, c_filters>>
    /\ UNCHANGED <<exVars, bVars, rVars, tVars, wVars, fVars, xVars, oVars>>

\* lines 668-680: one event for the segment
AssPlain ==
    /\ c_pc = "ass"
    /\ c_j < Len(c_speech)
    /\ ~Blank(AssSegment.text)
    /\ c_has_start
    /\ ~c_highlighting
    /\ c_events' = Append(c_events, PlainEvent(AssSegment, c_offset, c_max))
    /\ c_j' = c_j + 1
    /\ UNCHANGED <<c_speech, c_has_start, c_offset, c_highlighting, c_max, c_pc, c_filters>>
    /\ UNCHANGED <<exVars, bVars, rVars, tVars, wVars, fVars, xVars, oVars>>

\* lines 682-693: the document is saved and the constructor returns
AssSave ==
    /\ c_pc = "ass"
    /\ c_j = Len(c_speech)
    /\ c_pc' = "apply"
    /\ c_j' = 0
    /\ UNCHANGED <<c_speech, c_has_start, c_offset, c_highlighting, c_max,
                   c_events, c_filters>>
    /\ UNCHANGED <<exVars, bVars, rVars, tVars, wVars, fVars, xVars, oVars>>


RECURSIVE Escape(_)
\* lines 736 and 751: line.replace("'", "\\'").replace(":", "\\:")
Escape(line) ==
    IF line = <<>> THEN <<>>
    ELSE (IF Head(line) \in {"'", ":"} THEN <<"\\", Head(line)>> ELSE <<Head(line)>>)
         \o Escape(Tail(line))

\* lines 723-724: the two lines drawn for a segment
DrawnLines(segment, max_chars) ==
    _create_strict_two_lines(_capitalize_sentence(segment.text), max_chars)

\* lines 733-760: the filter for line 1, then the filter for line 2 if it exists
DrawtextFilters(segment, offset_time, max_chars) ==
    LET window == LocalWindow(segment, offset_time)
        lines == DrawnLines(segment, max_chars)
        first == [text |-> Escape(lines[1]), y |-> "y1_pos",
                  enable_start |-> window.start, enable_end |-> window.end]
        second == [text |-> Escape(lines[2]), y |-> "y2_pos",
                   enable_start |-> window.start, enable_end |-> window.end]
    IN IF lines[2] # <<>> THEN <<first, second>> ELSE <<first>>

\* lines 695-701 and 711: apply calls _apply_ffmpeg_captions (use_ffmpeg_captions
\* keeps its default), which reads youtube_short.start_time first
DrawEnter ==
    /\ c_pc = "apply"
    /\ c_pc' = IF c_has_start THEN "draw" ELSE "raised"
    /\ UNCHANGED <<c_speech, c_has_start, c_offset, c_highlighting, c_max, c_j,
                   c_events, c_filters>>
    /\ UNCHANGED <<exVars, bVars, rVars, tVars, wVars, fVars, xVars, oVars>>

\* lines 714-716: a blank segment is passed over
DrawSkipBlank ==
    /\ c_pc = "draw"
    /\ c_j < Len(c_speech)
    /\ Blank(AssSegment.text)
    /\ c_j' = c_j + 1
    /\ UNCHANGED <<c_speech, c_has_start, c_offset, c_highlighting, c_max, c_pc,
                   c_events, c_filters>>
    /\ UNCHANGED <<exVars, bVars, rVars, tVars, wVars, fVars, xVars, oVars>>

\* lines 726-727: line1 is empty, nothing is drawn
DrawSkipNoLine1 ==
    /\ c_pc = "draw"
    /\ c_j < Len(c_speech)
    /\ ~Blank(AssSegment.text)
    /\ DrawnLines(AssSegment, c_max)[1] = <<>>
    /\ c_j' = c_j + 1
    /\ UNCHANGED <<c_speech, c_has_start, c_offset, c_highlighting, c_max, c_pc,
                   c_events, c_filters>>
    /\ UNCHANGED <<exVars, bVars, rVars, tVars, wVars, fVars, xVars, oVars>>

\* lines 729-760: the segment's lines are drawn
DrawLines ==
    /\ c_pc = "draw"
    /\ c_j < Len(c_speech)
    /\ ~Blank(AssSegment.text)
    /\ DrawnLines(AssSegment, c_max)[1] # <<>>
    /\ c_filters' = c_filters \o DrawtextFilters(AssSegment, c_offset, c_max)
    /\ c_j' = c_j + 1
    /\ UNCHANGED <<c_speech, c_has_start, c_offset, c_highlighting, c_max, c_pc, c_events>>
    /\ UNCHANGED <<exVars, bVars, rVars, tVars, wVars, fVars, xVars, oVars>>

\* line 762
DrawReturn ==
    /\ c_pc = "draw"
    /\ c_j = Len(c_speech)
    /\ c_pc' = "done"
    /\ UNCHANGED <<c_speech, c_has_start, c_offset, c_highlighting, c_max, c_j,
                   c_events, c_filters>>
    /\ UNCHANGED <<exVars, bVars, rVars, tVars, wVars, fVars, xVars, oVars>>

CaptionNext ==
    \/ AssSkipBlank \/ AssRaise \/ AssHighlighted \/ AssPlain \/ AssSave
    \/ DrawEnter \/ DrawSkipBlank \/ DrawSkipNoLine1 \/ DrawLines \/ DrawReturn

\* A CaptionsEffect is constructed for a short and applied once, for every
\* speech tried, with and without a start_time on the short.
CaptionInit ==
    /\ c_speech \in CaptionSpeeches \cup QuickSpeeches
    /\ c_has_start \in BOOLEAN
    /\ c_offset \in (IF c_has_start THEN CaptionOffsets ELSE {0})
    /\ c_highlighting \in BOOLEAN
    /\ c_max \in CaptionBudgets
    /\ c_pc = "ass"
    /\ c_j = 0
    /\ c_events = <<>>
    /\ c_filters = <<>>
    /\ WrapOff
    /\ ReframeOff
    /\ TransitionOff
    /\ OtherOff
    /\ ExecOff
    /\ BatchOff
    /\ ResolveOff
    /\ TimingOff

SpecCaption == CaptionInit /\ [][CaptionNext]_vars


\* --------------------------------------------- one call of each wrapper
MaxWrapLen == 7

MaxWrapChars == 3

\* Two letters and the space.
WrapAlphabet == {"a", "b", " "}

\* lines 526-527 storing the stripped text on the way
StrictReturnOneLine_restrip ==
    /\ w_pc = "call"
    /\ ~StrictBlank(w_text)
    /\ StrictFits(w_text, w_max)
    /\ w_lines' = _create_strict_two_lines(w_text, w_max)
    /\ w_text' = Strip(w_text, Whitespace)
    /\ w_pc' = "returned"
    /\ UNCHANGED <<w_max, m_pc, m_text>>
    /\ UNCHANGED <<exVars, bVars, rVars, tVars, cVars, fVars, xVars, oVars>>

\* lines 519-523: no words, ("", "") is returned
StrictReturnEmpty ==
    /\ w_pc = "call"
    /\ StrictBlank(w_text)
    /\ w_lines' = _create_strict_two_lines(w_text, w_max)
    /\ w_pc' = "returned"
    /\ UNCHANGED <<w_text, w_max, m_pc, m_text>>
    /\ UNCHANGED <<exVars, bVars, rVars, tVars, cVars, fVars, xVars, oVars>>

\* lines 526-527: the stripped text fits one line
StrictReturnOneLine ==
    /\ w_pc = "call"
    /\ ~StrictBlank(w_text)
    /\ StrictFits(w_text, w_max)
    /\ w_lines' = _create_strict_two_lines(w_text, w_max)
    /\ w_pc' = "returned"
    /\ UNCHANGED <<w_text, w_max, m_pc, m_text>>
    /\ UNCHANGED <<exVars, bVars, rVars, tVars, cVars, fVars, xVars, oVars>>

\* lines 529-577: the two loops, then the tuple
StrictReturnTwoLines ==
    /\ w_pc = "call"
    /\ ~StrictBlank(w_text)
    /\ ~StrictFits(w_text, w_max)
    /\ w_lines' = _create_strict_two_lines(w_text, w_max)
    /\ w_pc' = "returned"
    /\ UNCHANGED <<w_text, w_max, m_pc, m_text>>
    /\ UNCHANGED <<exVars, bVars, rVars, tVars, cVars, fVars, xVars, oVars>>

\* lines 453-457: the normalised text fits one line
MobileReturnFits ==
    /\ m_pc = "call"
    /\ Len(NormalizeSpaces(w_text)) <= w_max
    /\ m_text' = _wrap_text_for_mobile(w_text, w_max)
    /\ m_pc' = "returned"
    /\ UNCHANGED <<w_text, w_max, w_pc, w_lines>>
    /\ UNCHANGED <<exVars, bVars, rVars, tVars, cVars, fVars, xVars, oVars>>

\* lines 460-502: line1 took at least one word; line1 \N line2 is returned
MobileReturnWrapped ==
    /\ m_pc = "call"
    /\ Len(NormalizeSpaces(w_text)) > w_max
    /\ FitCount(Split(w_text), w_max) > 0
    /\ m_text' = _wrap_text_for_mobile(w_text, w_max)
    /\ m_pc' = "returned"
    /\ UNCHANGED <<w_text, w_max, w_pc, w_lines>>
    /\ UNCHANGED <<exVars, bVars, rVars, tVars, cVars, fVars, xVars, oVars>>

\* lines 460-506: the first word does not fit, line1 stays empty and the
\* normalised text is returned
MobileReturnUnwrapped ==
    /\ m_pc = "call"
    /\ Len(NormalizeSpaces(w_text)) > w_max
    /\ FitCount(Split(w_text), w_max) = 0
    /\ m_text' = _wrap_text_for_mobile(w_text, w_max)
    /\ m_pc' = "returned"
    /\ UNCHANGED <<w_text, w_max, w_pc, w_lines>>
    /\ UNCHANGED <<exVars, bVars, rVars, tVars, cVars, fVars, xVars, oVars>>

WrapNext ==
    \/ StrictReturnEmpty \/ StrictReturnOneLine \/ StrictReturnTwoLines
    \/ MobileReturnFits \/ MobileReturnWrapped \/ MobileReturnUnwrapped

\* One call of each wrapper on the same argument, for every text and budget tried.
WrapInit ==
    /\ w_text \in SeqsUpTo(WrapAlphabet, MaxWrapLen)
    /\ w_max \in 1..MaxWrapChars
    /\ w_pc = "call"
    /\ w_lines = <<>>
    /\ m_pc = "call"
    /\ m_text = <<>>
    /\ CaptionOff
    /\ ReframeOff
    /\ TransitionOff
    /\ OtherOff
    /\ ExecOff
    /\ BatchOff
    /\ ResolveOff
    /\ TimingOff

SpecWrap == WrapInit /\ [][WrapNext]_vars


\* --------------------------------------- VideoRatioConversionEffect.apply
MaxDim == 16

\* The input pictures tried: every size up to MaxDim, and 1920 x 1080.
SourceSizes == ((1..MaxDim) \X (1..MaxDim)) \cup {<<1920, 1080>>}

\* <<target_w, target_h>>: portrait, landscape, square, and the 1080 x 1920
\* of the shorts.
TargetSizes == {<<9, 16>>, <<16, 9>>, <<16, 16>>, <<1080, 1920>>}

\* lines 45-50 with the comparison turned round
WiderThanTarget_inverted(source, target) ==
    source[1] * target[2] < target[1] * source[2]

\* lines 45-50: gt(iw/ih, target_w/target_h)
WiderThanTarget(source, target) ==
    source[1] * target[2] > target[1] * source[2]

\* The size ffmpeg derives for a dimension given as -1: the other dimension
\* times the input's aspect ratio, rounded to the nearest whole pixel.
RoundDiv(a, b) == (2 * a + b) \div (2 * b)

\* lines 47-51, the input is wider than the target: the width is target_w,
\* the height is -1
ScaleToWidth ==
    /\ f_pc = "input"
    /\ WiderThanTarget(f_source, f_target)
    /\ f_scaled' = <<f_target[1], RoundDiv(f_target[1] * f_source[2], f_source[1])>>
    /\ f_pc' = "scaled"
    /\ UNCHANGED <<f_source, f_target, f_pad>>
    /\ UNCHANGED <<exVars, bVars, rVars, tVars, cVars, wVars, xVars, oVars>>

\* lines 47-51, the input is not wider than the target: the width is -1, the
\* height is target_h
ScaleToHeight ==
    /\ f_pc = "input"
    /\ ~WiderThanTarget(f_source, f_target)
    /\ f_scaled' = <<RoundDiv(f_target[2] * f_source[1], f_source[2]), f_target[2]>>
    /\ f_pc' = "scaled"
    /\ UNCHANGED <<f_source, f_target, f_pad>>
    /\ UNCHANGED <<exVars, bVars, rVars, tVars, cVars, wVars, xVars, oVars>>

\* lines 52-56: a black canvas of the target size with the picture at
\* x = (ow-iw)/2, y = (oh-ih)/2, in whole pixels
Pad ==
    /\ f_pc = "scaled"
    /\ f_pad' = [w |-> f_target[1], h |-> f_target[2],
                 x |-> (f_target[1] - f_scaled[1]) \div 2,
                 y |-> (f_target[2] - f_scaled[2]) \div 2,
                 color |-> "black"]
    /\ f_pc' = "padded"
    /\ UNCHANGED <<f_source, f_target, f_scaled>>
    /\ UNCHANGED <<exVars, bVars, rVars, tVars, cVars, wVars, xVars, oVars>>

ReframeNext == ScaleToWidth \/ ScaleToHeight \/ Pad

\* One application of the effect, for every input size and target tried.
ReframeInit ==
    /\ f_source \in SourceSizes
    /\ f_target \in TargetSizes
    /\ f_pc = "input"
    /\ f_scaled = <<0, 0>>
    /\ f_pad = <<>>
    /\ CaptionOff
    /\ WrapOff
    /\ TransitionOff
    /\ OtherOff
    /\ ExecOff
    /\ BatchOff
    /\ ResolveOff
    /\ TimingOff

SpecReframe == ReframeInit /\ [][ReframeNext]_vars


\* ------------------------------- the opening transition filters: apply
MaxSteps == 4

\* blur_strength / pixelation_level (default 20)
Strengths == {5, 10, 20}

\* duration, in microseconds: 0.6 s and 1.2 s
TransitionDurations == {600000, 1200000}

\* The input video is 2 s or 3 s long.
ClipLengths == {2000000, 3000000}

\* line 177: step_duration = self.duration / self.steps
StepDuration == x_duration \div x_steps

\* lines 181-199: the part for step i, blurred with
\* blur_strength * (1 - i / steps) = blur_strength * (steps - i) / steps when
\* that is positive; the strength is kept as a fraction num / den
BlurSegment(i) ==
    LET num == x_strength * (x_steps - i)
    IN [filter |-> IF num > 0 THEN "boxblur" ELSE "none",
        start |-> i * StepDuration,
        end |-> (i + 1) * StepDuration,
        num |-> num,
        den |-> x_steps]

\* lines 204-207 and 154-156: trim(start=duration), to the end of the video
RemainingPart ==
    [filter |-> "none", start |-> x_duration, end |-> x_length, num |-> 0, den |-> 1]

\* lines 137-151: the whole opening at pixelation_level, trim(0, duration)
PixelatedPart ==
    [filter |-> "pixelate", start |-> 0, end |-> x_duration,
     num |-> x_strength, den |-> 1]

\* lines 170-178
BlurEnter ==
    /\ x_pc = "apply"
    /\ x_kind = "blur"
    /\ x_pc' = "loop"
    /\ UNCHANGED <<x_kind, x_strength, x_duration, x_steps, x_length, x_i, x_segments>>
    /\ UNCHANGED <<exVars, bVars, rVars, tVars, cVars, wVars, fVars, oVars>>

\* lines 180-201: one pass of the loop over range(steps)
BlurStep ==
    /\ x_pc = "loop"
    /\ x_i < x_steps
    /\ x_segments' = Append(x_segments, BlurSegment(x_i))
    /\ x_i' = x_i + 1
    /\ UNCHANGED <<x_kind, x_strength, x_duration, x_steps, x_length, x_pc>>
    /\ UNCHANGED <<exVars, bVars, rVars, tVars, cVars, wVars, fVars, oVars>>

\* lines 203-212: the remaining part is appended and all parts are concatenated
BlurConcat ==
    /\ x_pc = "loop"
    /\ x_i = x_steps
    /\ x_segments' = Append(x_segments, RemainingPart)
    /\ x_pc' = "returned"
    /\ UNCHANGED <<x_kind, x_strength, x_duration, x_steps, x_length, x_i>>
    /\ UNCHANGED <<exVars, bVars, rVars, tVars, cVars, wVars, fVars, oVars>>

\* lines 129-161: one pixelated part and the normal part, concatenated;
\* self.steps is not read
PixelateApply ==
    /\ x_pc = "apply"
    /\ x_kind = "pixelate"
    /\ x_segments' = <<PixelatedPart, RemainingPart>>
    /\ x_pc' = "returned"
    /\ UNCHANGED <<x_kind, x_strength, x_duration, x_steps, x_length, x_i>>
    /\ UNCHANGED <<exVars, bVars, rVars, tVars, cVars, wVars, fVars, oVars>>

TransitionNext == BlurEnter \/ BlurStep \/ BlurConcat \/ PixelateApply

\* One application of either filter, for every parameter tried.
TransitionInit ==
    /\ x_kind \in {"blur", "pixelate"}
    /\ x_strength \in Strengths
    /\ x_duration \in TransitionDurations
    /\ x_steps \in 1..MaxSteps
    /\ x_length \in ClipLengths
    /\ x_pc = "apply"
    /\ x_i = 0
    /\ x_segments = <<>>
    /\ CaptionOff
    /\ WrapOff
    /\ ReframeOff
    /\ OtherOff
    /\ ExecOff
    /\ BatchOff
    /\ ResolveOff
    /\ TimingOff

SpecTransition == TransitionInit /\ [][TransitionNext]_vars


\* ------------------------------------ the speed change: IncreaseVideoSpeedEffect
MaxSpeedQuarters == 16

\* speed_factor, in hundredths: 0.25, 0.5, ... up to MaxSpeedQuarters quarters
SpeedFactors == {25 * q : q \in 1..MaxSpeedQuarters}

\* fps
FrameRates == {24, 30, 60}

\* line 28: v = v.filter("setpts", f"PTS/{self.speed_factor}")
SpeedSetPts ==
    /\ s_pc = "apply"
    /\ s_video' = Append(s_video, [filter |-> "setpts", divisor |-> s_factor])
    /\ s_pc' = "setpts"
    /\ UNCHANGED <<s_factor, s_fps, s_audio>>
    /\ UNCHANGED sRest

\* line 29: a = a.filter("atempo", self.speed_factor): one stage carrying the
\* factor as it was given
SpeedATempo ==
    /\ s_pc = "setpts"
    /\ s_audio' = Append(s_audio, [filter |-> "atempo", tempo |-> s_factor])
    /\ s_pc' = "atempo"
    /\ UNCHANGED <<s_factor, s_fps, s_video>>
    /\ UNCHANGED sRest

\* line 30: v = v.filter("fps", fps=self.fps)
SpeedFps ==
    /\ s_pc = "atempo"
    /\ s_video' = Append(s_video, [filter |-> "fps", fps |-> s_fps])
    /\ s_pc' = "fps"
    /\ UNCHANGED <<s_factor, s_fps, s_audio>>
    /\ UNCHANGED sRest

\* lines 31-32: v = v.filter("format", "yuv420p"); return [a, v]
SpeedFormat ==
    /\ s_pc = "fps"
    /\ s_video' = Append(s_video, [filter |-> "format", pix_fmt |-> "yuv420p"])
    /\ s_pc' = "returned"
    /\ UNCHANGED <<s_factor, s_fps, s_audio>>
    /\ UNCHANGED sRest

SpeedNext == SpeedSetPts \/ SpeedATempo \/ SpeedFps \/ SpeedFormat

\* One application of the effect, for every speed factor and frame rate tried.
SpeedInit ==
    /\ s_factor \in SpeedFactors
    /\ s_fps \in FrameRates
    /\ s_pc = "apply"
    /\ s_video = <<>>
    /\ s_audio = <<>>
    /\ StrategyOff
    /\ ParallelOff
    /\ CaptionOff
    /\ WrapOff
    /\ ReframeOff
    /\ CutterOff
    /\ CacheOff
    /\ TransitionOff
    /\ ExecOff
    /\ BatchOff
    /\ ResolveOff
    /\ TimingOff

SpecSpeed == SpeedInit /\ [][SpeedNext]_vars


\* ------------------------------ the strategy: VideoEffectsStrategy.create_effects
\* The effects of the list at lines 29-41, in the order written.
BasicEffects ==
    <<"AudioNormalizationEffect", "VideoRatioConversionEffect", "TextEffect",
      "CaptionsEffect", "BlurFilterStartVideoEffect", "IncreaseVideoSpeedEffect">>

\* line 30
NewAudioNormalization ==
    /\ st_pc = "create"
    /\ Len(st_built) = 0
    /\ st_built' = Append(st_built, [class |-> BasicEffects[1]])
    /\ UNCHANGED <<st_index, st_speed, st_pc>>
    /\ UNCHANGED <<cVars, stRest>>

\* line 31
NewVideoRatioConversion ==
    /\ st_pc = "create"
    /\ Len(st_built) = 1
    /\ st_built' = Append(st_built, [class |-> BasicEffects[2]])
    /\ UNCHANGED <<st_index, st_speed, st_pc>>
    /\ UNCHANGED <<cVars, stRest>>

\* line 32: short.title is a declared field of the short
NewText ==
    /\ st_pc = "create"
    /\ Len(st_built) = 2
    /\ st_built' = Append(st_built, [class |-> BasicEffects[3]])
    /\ UNCHANGED <<st_index, st_speed, st_pc>>
    /\ UNCHANGED <<cVars, stRest>>

\* lines 33-38 and video_effect.py lines 261-307: the constructor of
\* CaptionsEffect is entered; it ends by calling _generate_ass_file
NewCaptions ==
    /\ st_pc = "create"
    /\ Len(st_built) = 3
    /\ st_pc' = "captions"
    /\ c_pc' = "ass"
    /\ UNCHANGED <<c_speech, c_has_start, c_offset, c_highlighting, c_max, c_j,
                   c_events, c_filters>>
    /\ UNCHANGED <<st_index, st_speed, st_built>>
    /\ UNCHANGED stRest

\* video_effect.py line 307 returning: the document was saved to
\* output_dir / short_{short_index}_captions.ass (lines 304 and 693)
CaptionsConstructed ==
    /\ st_pc = "captions"
    /\ c_pc = "apply"
    /\ st_built' = Append(st_built, [class |-> BasicEffects[4]])
    /\ st_pc' = "create"
    /\ UNCHANGED <<st_index, st_speed>>
    /\ UNCHANGED <<cVars, stRest>>

\* video_effect.py line 307 raising: the exception leaves create_effects
CaptionsRaised ==
    /\ st_pc = "captions"
    /\ c_pc = "raised"
    /\ st_pc' = "raised"
    /\ UNCHANGED <<st_index, st_speed, st_built>>
    /\ UNCHANGED <<cVars, stRest>>

\* line 39
NewBlur ==
    /\ st_pc = "create"
    /\ Len(st_built) = 4
    /\ st_built' = Append(st_built, [class |-> BasicEffects[5]])
    /\ UNCHANGED <<st_index, st_speed, st_pc>>
    /\ UNCHANGED <<cVars, stRest>>

\* line 40
NewSpeed ==
    /\ st_pc = "create"
    /\ Len(st_built) = 5
    /\ st_built' = Append(st_built, [class |-> BasicEffects[6]])
    /\ UNCHANGED <<st_index, st_speed, st_pc>>
    /\ UNCHANGED <<cVars, stRest>>

\* line 29: the list is returned
CreateReturn ==
    /\ st_pc = "create"
    /\ Len(st_built) = 6
    /\ st_pc' = "returned"
    /\ UNCHANGED <<st_index, st_speed, st_built>>
    /\ UNCHANGED <<cVars, stRest>>

\* (enable_word_highlighting keeps its default True, so the plain branch of
\* _generate_ass_file is not taken)
StrategyNext ==
    \/ NewAudioNormalization \/ NewVideoRatioConversion \/ NewText \/ NewCaptions
    \/ AssSkipBlank \/ AssRaise \/ AssHighlighted \/ AssSave
    \/ CaptionsConstructed \/ CaptionsRaised \/ NewBlur \/ NewSpeed \/ CreateReturn

\* One call of BASIC.create_effects(short, speed_factor, data_dir, short_index),
\* for every speech tried, with and without a start_time on the short; the
\* CaptionsEffect keeps its defaults (20 characters, word highlighting).
StrategyInit ==
    /\ st_index \in 0..(MaxShorts - 1)
    /\ st_speed \in {100, 135}
    /\ st_pc = "create"
    /\ st_built = <<>>
    /\ c_speech \in CaptionSpeeches
    /\ c_has_start \in BOOLEAN
    /\ c_offset \in (IF c_has_start THEN CaptionOffsets ELSE {0})
    /\ c_highlighting = TRUE
    /\ c_max = 20
    /\ c_pc = "off"
    /\ c_j = 0
    /\ c_events = <<>>
    /\ c_filters = <<>>
    /\ SpeedOff
    /\ ParallelOff
    /\ WrapOff
    /\ ReframeOff
    /\ CutterOff
    /\ CacheOff
    /\ TransitionOff
    /\ ExecOff
    /\ BatchOff
    /\ ResolveOff
    /\ TimingOff

SpecStrategy == StrategyInit /\ [][StrategyNext]_vars


\* ------------------------- two executions of apply_effects, for two clips
MaxClock == 3

Executions == {1, 2}

\* video_effect.py line 304: output_dir / f"short_{short_index}_captions.ass",
\* in the data directory
CaptionsPath(short_index) == [dir |-> 0, name |-> <<short_index, "captions.ass", 0>>]

\* line 54: the video name of the cut clip the execution was given
ClipName(e) == CutClipPath(p_short[e]).name[1]

ParNextIndex(e) == IF p_pc[e] = "ready" THEN 0 ELSE p_i[e] + 1

ParAtLoopHead(e) == p_pc[e] \in {"ready", "materialized"}

\* datetime.now() moves on between two readings, or does not
Tick ==
    /\ p_clock < MaxClock
    /\ p_clock' = p_clock + 1
    /\ UNCHANGED <<p_debug, p_short, p_pc, p_dir, p_i, p_out, p_old, p_ops>>
    /\ UNCHANGED pRest

\* lines 54-58: execution_dir = output_dir / str(datetime.now()), made with
\* exist_ok=True
ParSetup(e) ==
    /\ p_pc[e] = "idle"
    /\ p_dir' = [p_dir EXCEPT ![e] = p_clock]
    /\ p_pc' = [p_pc EXCEPT ![e] = "create"]
    /\ UNCHANGED <<p_debug, p_short, p_clock, p_i, p_out, p_old, p_ops>>
    /\ UNCHANGED pRest

\* line 60: the effects are built; the CaptionsEffect among them writes its
\* document (video_effect.py lines 304-307 and 693)
ParCreateEffects(e) ==
    /\ p_pc[e] = "create"
    /\ p_ops' = p_ops \cup {[by |-> e, op |-> "write", path |-> CaptionsPath(p_short[e])]}
    /\ p_pc' = [p_pc EXCEPT ![e] = "ready"]
    /\ UNCHANGED <<p_debug, p_short, p_clock, p_dir, p_i, p_out, p_old>>
    /\ UNCHANGED pRest

\* line 60: building the effects raised, before the document was saved
ParCreateRaise(e) ==
    /\ p_pc[e] = "create"
    /\ p_pc' = [p_pc EXCEPT ![e] = "raised"]
    /\ UNCHANGED <<p_debug, p_short, p_clock, p_dir, p_i, p_out, p_old, p_ops>>
    /\ UNCHANGED pRest

\* lines 65-76: one pass of the loop body up to the render call
ParStartEffect(e) ==
    /\ ParAtLoopHead(e)
    /\ ParNextIndex(e) < Len(BasicEffects)
    /\ LET i == ParNextIndex(e)
       IN /\ p_i' = [p_i EXCEPT ![e] = i]
          /\ p_old' = [p_old EXCEPT ![e] = IF p_out[e] # NoPath
                                            THEN Append(p_old[e], p_out[e])
                                            ELSE p_old[e]]
          /\ p_out' = [p_out EXCEPT ![e] =
                          OutputPath(p_dir[e], ClipName(e), BasicEffects[i + 1], i)]
    /\ p_pc' = [p_pc EXCEPT ![e] = "applying"]
    /\ UNCHANGED <<p_debug, p_short, p_clock, p_dir, p_ops>>
    /\ UNCHANGED pRest

\* lines 77-78: ffmpeg wrote (or overwrote) output_file
ParRenderOk(e) ==
    /\ p_pc[e] = "applying"
    /\ p_ops' = p_ops \cup {[by |-> e, op |-> "write", path |-> p_out[e]]}
    /\ p_pc' = [p_pc EXCEPT ![e] = "materialized"]
    /\ UNCHANGED <<p_debug, p_short, p_clock, p_dir, p_i, p_out, p_old>>
    /\ UNCHANGED pRest

\* lines 76-77: effect.apply or ffmpeg's run raised
ParRenderFail(e) ==
    /\ p_pc[e] = "applying"
    /\ p_pc' = [p_pc EXCEPT ![e] = "raised"]
    /\ UNCHANGED <<p_debug, p_short, p_clock, p_dir, p_i, p_out, p_old, p_ops>>
    /\ UNCHANGED pRest

\* lines 80-83 and 40-45: unless debug, unlink is called on every old file
ParFinish(e) ==
    /\ ParAtLoopHead(e)
    /\ ParNextIndex(e) >= Len(BasicEffects)
    /\ p_ops' = IF p_debug THEN p_ops
                ELSE p_ops \cup {[by |-> e, op |-> "unlink", path |-> p_old[e][k]] :
                                    k \in DOMAIN p_old[e]}
    /\ p_pc' = [p_pc EXCEPT ![e] = "done"]
    /\ UNCHANGED <<p_debug, p_short, p_clock, p_dir, p_i, p_out, p_old>>
    /\ UNCHANGED pRest

ParallelNext ==
    \/ Tick
    \/ \E e \in Executions :
          \/ ParSetup(e) \/ ParCreateEffects(e) \/ ParCreateRaise(e)
          \/ ParStartEffect(e) \/ ParRenderOk(e) \/ ParRenderFail(e) \/ ParFinish(e)

\* Two executions for two different clips of one batch, started in any order
\* and interleaved in any way.
ParallelInit ==
    /\ p_debug \in BOOLEAN
    /\ p_short \in {f \in [Executions -> 0..(MaxShorts - 1)] : f[1] # f[2]}
    /\ p_clock = 1
    /\ p_pc = [e \in Executions |-> "idle"]
    /\ p_dir = [e \in Executions |-> 0]
    /\ p_i = [e \in Executions |-> 0]
    /\ p_out = [e \in Executions |-> NoPath]
    /\ p_old = [e \in Executions |-> <<>>]
    /\ p_ops = {}
    /\ SpeedOff
    /\ StrategyOff
    /\ CaptionOff
    /\ WrapOff
    /\ ReframeOff
    /\ CutterOff
    /\ CacheOff
    /\ TransitionOff
    /\ ExecOff
    /\ BatchOff
    /\ ResolveOff
    /\ TimingOff

SpecParallel == ParallelInit /\ [][ParallelNext]_vars


\* ------------------------------------ the cutter: create_short_video
\* short.start_time and the length of the short, in microseconds
CutStarts == {0, 500000, 1500000}

CutLengths == {1000000, 2000000}

\* f"{x:.0f}": the float rounded to a whole number, a half going to the even
\* neighbour
RoundHalfEven(micros) ==
    LET whole == micros \div 1000000
        rest == micros % 1000000
    IN IF rest > 500000 \/ (rest = 500000 /\ whole % 2 = 1) THEN whole + 1 ELSE whole

\* line 92: f"short_{short_index + 1}_{short.start_time:.0f}s-{short.end_time:.0f}s.mp4"
ShortFileName(short_index, start_time, end_time) ==
    <<short_index + 1, RoundHalfEven(start_time), RoundHalfEven(end_time)>>

\* line 93 and line 11: output_path and output_path.with_suffix('.srt')
Mp4 == [suffix |-> "mp4", name |-> k_name]

Srt == [suffix |-> "srt", name |-> k_name]

\* lines 92-93: the name is formatted from the short's times; a short without
\* them raises AttributeError
CutterName ==
    /\ k_pc = "call"
    /\ IF k_has_times
       THEN /\ k_name' = ShortFileName(k_index, k_start, k_end)
            /\ k_pc' = "subtitle"
       ELSE /\ k_pc' = "raised"
            /\ UNCHANGED k_name
    /\ UNCHANGED <<k_index, k_has_times, k_start, k_end, k_refresh, k_files,
                   k_existed, k_runs>>
    /\ UNCHANGED kRest

\* lines 44-51: the output directory is made and the subtitle file written
CutterSubtitle ==
    /\ k_pc = "subtitle"
    /\ k_files' = k_files \cup {Srt}
    /\ k_pc' = "run"
    /\ UNCHANGED <<k_index, k_has_times, k_start, k_end, k_refresh, k_name,
                   k_existed, k_runs>>
    /\ UNCHANGED kRest

\* lines 54-68: ffmpeg cuts the clip, overwrite_output=True
CutterRunOk ==
    /\ k_pc = "run"
    /\ k_runs' = k_runs + 1
    /\ k_files' = k_files \cup {Mp4}
    /\ k_pc' = "ran"
    /\ UNCHANGED <<k_index, k_has_times, k_start, k_end, k_refresh, k_name, k_existed>>
    /\ UNCHANGED kRest

\* lines 68 and 76-78: ffmpeg failed, the error is logged and raised again
CutterRunFail ==
    /\ k_pc = "run"
    /\ k_runs' = k_runs + 1
    /\ k_pc' = "raised"
    /\ UNCHANGED <<k_index, k_has_times, k_start, k_end, k_refresh, k_name,
                   k_files, k_existed>>
    /\ UNCHANGED kRest

\* lines 70-74: the subtitle file is unlinked and output_video returned
CutterReturn ==
    /\ k_pc = "ran"
    /\ k_files' = k_files \ {Srt}
    /\ k_pc' = "returned"
    /\ UNCHANGED <<k_index, k_has_times, k_start, k_end, k_refresh, k_name,
                   k_existed, k_runs>>
    /\ UNCHANGED kRest

CutterNext ==
    CutterName \/ CutterSubtitle \/ CutterRunOk \/ CutterRunFail \/ CutterReturn

\* One call of create_short_video as main.py lines 38-45 make it, on a first
\* run (output_dir empty) or on a re-run (the clip of an earlier run is there).
CutterInit ==
    /\ k_index \in 0..(MaxShorts - 1)
    /\ k_has_times \in BOOLEAN
    /\ k_start \in CutStarts
    /\ k_end \in {k_start + length : length \in CutLengths}
    /\ k_refresh \in BOOLEAN
    /\ k_pc = "call"
    /\ k_name = <<>>
    /\ k_files \in {{}, {[suffix |-> "mp4", name |-> ShortFileName(k_index, k_start, k_end)]}}
    /\ k_existed = k_files
    /\ k_runs = 0
    /\ SpeedOff
    /\ StrategyOff
    /\ ParallelOff
    /\ CaptionOff
    /\ WrapOff
    /\ ReframeOff
    /\ CacheOff
    /\ TransitionOff
    /\ ExecOff
    /\ BatchOff
    /\ ResolveOff
    /\ TimingOff

SpecCutter == CutterInit /\ [][CutterNext]_vars


\* ---------------- the cached stages: audio extraction, transcription, shorts
MaxCachedItems == 2

\* output_file is absent
NoFile == <<>>

\* audio_retriever.py lines 27 and 57: the stage returns output_file itself
OutputFile == "extracted_audio.mp3"

\* what ffmpeg writes to output_file
Mp3 == <<"mp3">>

\* domain/models.py: the fields of Speech and of YouTubeShortsRecommendation
SpeechFields == <<"language", "duration_seconds", "segments">>

ShortsFields == <<"shorts", "total_shorts_found", "analysis_summary">>

\* speech_to_text.py lines 63-67: what a transcription can come to
SpeechValues ==
    { [language |-> "ru", duration_seconds |-> d,
       segments |-> IF d = 0 THEN <<>>
                    ELSE <<[start_time |-> 0, end_time |-> d, text |-> "a"]>>] :
      d \in 0..MaxCachedItems }

\* shorts_generator.py line 349: what _add_timestamps_to_shorts can return
ShortsValues ==
    { [shorts |-> [k \in 1..n |-> [title |-> "t", speech |-> <<>>]],
       total_shorts_found |-> n, analysis_summary |-> "s"] : n \in 0..MaxCachedItems }

\* model_dump_json: the fields of the value, written out in declaration order
Dump(value, fields) == [i \in 1..Len(fields) |-> <<fields[i], value[fields[i]]>>]

\* model_validate_json: the value with the fields read back from the text
Parse(text) ==
    [field \in {text[i][1] : i \in DOMAIN text} |->
        text[CHOOSE i \in DOMAIN text : text[i][1] = field][2]]

\* A cache test that does not look at refresh.
CacheHit_ignoresRefresh == h_file # NoFile

\* audio_retriever.py line 26, speech_to_text.py line 15, shorts_generator.py
\* line 338: output_file.exists() and not refresh
CacheHit == h_file # NoFile /\ ~h_refresh

\* audio_retriever.py lines 19-24: the video must exist and an ffmpeg
\* executable must be found before the cache is looked at
AudioCheck ==
    /\ h_stage = "audio"
    /\ h_pc = "call"
    /\ h_pc' = IF h_video /\ h_ffmpeg THEN "checked" ELSE "raised"
    /\ UNCHANGED <<h_stage, h_refresh, h_video, h_ffmpeg, h_file, h_before, h_calls,
                   h_writes, h_result, h_run, h_first>>
    /\ UNCHANGED hRest

\* audio_retriever.py lines 26-27
AudioCached ==
    /\ h_stage = "audio"
    /\ h_pc = "checked"
    /\ CacheHit
    /\ h_result' = OutputFile
    /\ h_pc' = "returned"
    /\ UNCHANGED <<h_stage, h_refresh, h_video, h_ffmpeg, h_file, h_before, h_calls,
                   h_writes, h_run, h_first>>
    /\ UNCHANGED hRest

\* audio_retriever.py lines 28-45 and 57: ffmpeg writes output_file
AudioExtractOk ==
    /\ h_stage = "audio"
    /\ h_pc = "checked"
    /\ ~CacheHit
    /\ h_calls' = h_calls + 1
    /\ h_file' = Mp3
    /\ h_writes' = h_writes + 1
    /\ h_result' = OutputFile
    /\ h_pc' = "returned"
    /\ UNCHANGED <<h_stage, h_refresh, h_video, h_ffmpeg, h_before, h_run, h_first>>
    /\ UNCHANGED hRest

\* audio_retriever.py lines 43-55: ffmpeg failed, the error is raised again
AudioExtractFail ==
    /\ h_stage = "audio"
    /\ h_pc = "checked"
    /\ ~CacheHit
    /\ h_calls' = h_calls + 1
    /\ h_pc' = "raised"
    /\ UNCHANGED <<h_stage, h_refresh, h_video, h_ffmpeg, h_file, h_before,
                   h_writes, h_result, h_run, h_first>>
    /\ UNCHANGED hRest

\* speech_to_text.py lines 15-16
SpeechCached ==
    /\ h_stage = "speech"
    /\ h_pc = "call"
    /\ CacheHit
    /\ h_result' = Parse(h_file)
    /\ h_pc' = "returned"
    /\ UNCHANGED <<h_stage, h_refresh, h_video, h_ffmpeg, h_file, h_before, h_calls,
                   h_writes, h_run, h_first>>
    /\ UNCHANGED hRest

\* speech_to_text.py lines 18-74: Whisper transcribes, the Speech is saved
\* and returned
SpeechTranscribeOk ==
    /\ h_stage = "speech"
    /\ h_pc = "call"
    /\ ~CacheHit
    /\ \E speech \in SpeechValues :
          /\ h_file' = Dump(speech, SpeechFields)
          /\ h_result' = speech
    /\ h_calls' = h_calls + 1
    /\ h_writes' = h_writes + 1
    /\ h_pc' = "returned"
    /\ UNCHANGED <<h_stage, h_refresh, h_video, h_ffmpeg, h_before, h_run, h_first>>
    /\ UNCHANGED hRest

\* speech_to_text.py lines 20-35 and 76-81: loading the model or transcribing
\* raised
SpeechTranscribeFail ==
    /\ h_stage = "speech"
    /\ h_pc = "call"
    /\ ~CacheHit
    /\ h_calls' = h_calls + 1
    /\ h_pc' = "raised"
    /\ UNCHANGED <<h_stage, h_refresh, h_video, h_ffmpeg, h_file, h_before,
                   h_writes, h_result, h_run, h_first>>
    /\ UNCHANGED hRest

\* shorts_generator.py lines 338-341
ShortsCached ==
    /\ h_stage = "shorts"
    /\ h_pc = "call"
    /\ CacheHit
    /\ h_result' = Parse(h_file)
    /\ h_pc' = "returned"
    /\ UNCHANGED <<h_stage, h_refresh, h_video, h_ffmpeg, h_file, h_before, h_calls,
                   h_writes, h_run, h_first>>
    /\ UNCHANGED hRest

\* shorts_generator.py lines 342-351: the LLM is asked, the shorts are
\* resolved, saved and returned
ShortsGenerateOk ==
    /\ h_stage = "shorts"
    /\ h_pc = "call"
    /\ ~CacheHit
    /\ \E res \in ShortsValues :
          /\ h_file' = Dump(res, ShortsFields)
          /\ h_result' = res
    /\ h_calls' = h_calls + 1
    /\ h_writes' = h_writes + 1
    /\ h_pc' = "returned"
    /\ UNCHANGED <<h_stage, h_refresh, h_video, h_ffmpeg, h_before, h_run, h_first>>
    /\ UNCHANGED hRest

\* shorts_generator.py line 348: _call_openai_api raised
ShortsGenerateFail ==
    /\ h_stage = "shorts"
    /\ h_pc = "call"
    /\ ~CacheHit
    /\ h_calls' = h_calls + 1
    /\ h_pc' = "raised"
    /\ UNCHANGED <<h_stage, h_refresh, h_video, h_ffmpeg, h_file, h_before,
                   h_writes, h_result, h_run, h_first>>
    /\ UNCHANGED hRest

\* settings.py lines 42-55: the program is run again with --no-refresh, over
\* the files the first run left
NextRun ==
    /\ h_pc = "returned"
    /\ h_run = 1
    /\ h_run' = 2
    /\ h_refresh' = FALSE
    /\ h_first' = h_result
    /\ h_before' = h_file
    /\ h_calls' = 0
    /\ h_writes' = 0
    /\ h_result' = <<>>
    /\ h_pc' = "call"
    /\ UNCHANGED <<h_stage, h_video, h_ffmpeg, h_file>>
    /\ UNCHANGED hRest

CacheNext ==
    \/ AudioCheck \/ AudioCached \/ AudioExtractOk \/ AudioExtractFail
    \/ SpeechCached \/ SpeechTranscribeOk \/ SpeechTranscribeFail
    \/ ShortsCached \/ ShortsGenerateOk \/ ShortsGenerateFail
    \/ NextRun

\* The content output_file can have when the stage is called.
CacheFiles(stage) ==
    {NoFile} \cup
    CASE stage = "audio" -> {Mp3}
      [] stage = "speech" -> {Dump(speech, SpeechFields) : speech \in SpeechValues}
      [] stage = "shorts" -> {Dump(res, ShortsFields) : res \in ShortsValues}

\* One stage is called with refresh set or not, with or without its output
\* file; when it returns, the program is run once more with refresh false.
CacheInit ==
    /\ h_stage \in {"audio", "speech", "shorts"}
    /\ h_refresh \in BOOLEAN
    /\ h_video \in (IF h_stage = "audio" THEN BOOLEAN ELSE {TRUE})
    /\ h_ffmpeg \in (IF h_stage = "audio" THEN BOOLEAN ELSE {TRUE})
    /\ h_file \in CacheFiles(h_stage)
    /\ h_before = h_file
    /\ h_pc = "call"
    /\ h_calls = 0
    /\ h_writes = 0
    /\ h_result = <<>>
    /\ h_run = 1
    /\ h_first = <<>>
    /\ SpeedOff
    /\ StrategyOff
    /\ ParallelOff
    /\ CutterOff
    /\ CaptionOff
    /\ WrapOff
    /\ ReframeOff
    /\ TransitionOff
    /\ ExecOff
    /\ BatchOff
    /\ ResolveOff
    /\ TimingOff

SpecCache == CacheInit /\ [][CacheNext]_vars

\* ------------------------------------------------------------------ claims
\* The output files of the steps started so far, in step order.
Outputs == [k \in DOMAIN applied |-> applied[k].output]

Intermediates == {applied[k].output : k \in 1..(Len(applied) - 1)}

\* What each started step read: step 0 the source clip, step i+1 the output of
\* step i, which was on disk when step i+1 started.
C1_Inputs ==
    \A k \in DOMAIN applied :
        /\ applied[k].step = k - 1
        /\ applied[k].input = IF k = 1 THEN video_path ELSE applied[k - 1].output
        /\ applied[k].input_exists

\* The executor's moves: Applying(i) is entered from the loop head only, with
\* i = 0 first and i + 1 after Materialized(i); Materialized(i) is entered from
\* Applying(i) only, with the output written; Done is entered after
\* Materialized(N-1) only (or at once when the list is empty).
C1_Step ==
    /\ (ex_pc' = "applying" /\ ex_pc # "applying") =>
          /\ ex_pc \in {"ready", "materialized"}
          /\ ex_i' = IF ex_pc = "ready" THEN 0 ELSE ex_i + 1
          /\ ex_i' < Len(effects)
          /\ Len(applied') = ex_i' + 1
    /\ (ex_pc' = "materialized" /\ ex_pc # "materialized") =>
          /\ ex_pc = "applying"
          /\ ex_i' = ex_i
          /\ applied[ex_i + 1].output \in files'
          /\ curr_video_path' = applied[ex_i + 1].output
    /\ (ex_pc' = "done" /\ ex_pc # "done") =>
          /\ ex_pc \in {"ready", "materialized"}
          /\ ex_pc = "ready" => Len(effects) = 0
          /\ ex_pc = "materialized" => ex_i = Len(effects) - 1
          /\ Len(applied) = Len(effects)
    /\ ex_pc = "applying" => ex_pc' \in {"applying", "materialized", "raised"}
    /\ ex_pc = "materialized" => ex_pc' \in {"materialized", "applying", "done"}

\* C1: in apply_effects, effect i+1 is applied only after the output file of
\* effect i has been written, the input of effect i+1 is exactly the output of
\* effect i (the input of effect 0 is the source clip), and the executor moves
\* Idle -> Applying(0) -> Materialized(0) -> ... -> Materialized(N-1) -> Done
\* without skipping or repeating a step.
C1_SequentialMaterialization == [](C1_Inputs) /\ [][C1_Step]_vars

C1_Witness == ex_pc = "done" /\ Len(applied) >= 2 /\ applied[2].input = applied[1].output

\* C2 as stated: on completion of N >= 1 steps the last materialized file is
\* returned; without debug every intermediate of steps 0..N-2 has been deleted
\* and neither the final file nor the source clip has; with debug no file is
\* deleted.
C2_AsStated ==
    (ex_pc = "done" /\ Len(effects) >= 1) =>
        /\ ex_result = applied[Len(applied)].output
        /\ ~debug => /\ Intermediates \cap files = {}
                     /\ ex_result \in files
                     /\ video_path \in files
        /\ debug => ({video_path} \cup {Outputs[k] : k \in DOMAIN Outputs}) \subseteq files

\* C2 (amended): on completion of N >= 1 steps the last materialized file is
\* returned; without debug every intermediate of steps 0..N-2 has been deleted
\* except those whose unlink failed (the failure is logged and skipped), and
\* neither the final file nor the source clip has been deleted; with debug no
\* file is deleted.
C2_CleanupOnDone ==
    (ex_pc = "done" /\ Len(effects) >= 1) =>
        /\ ex_result = applied[Len(applied)].output
        /\ ~debug => /\ Intermediates \cap files = unlink_failed
                     /\ ex_result \in files
                     /\ video_path \in files
        /\ debug => /\ ({video_path} \cup {Outputs[k] : k \in DOMAIN Outputs}) \subseteq files
                    /\ unlink_failed = {}

C2_Witness ==
    /\ ex_pc = "done"
    /\ ~debug
    /\ Len(effects) >= 3
    /\ Cardinality(Intermediates \cap files) = 1

\* C3: when the rendering engine fails at step k, no later effect is applied,
\* every intermediate produced by steps 0..k-1 still exists whatever the debug
\* flag, the source clip too, and the error leaves apply_effects instead of a
\* path being returned.
C3_RenderFailurePreserves ==
    (ex_pc = "raised" /\ ex_error = "RenderFailure") =>
        /\ Len(applied) = ex_i + 1
        /\ \A k \in 1..ex_i : applied[k].output \in files
        /\ video_path \in files
        /\ unlink_failed = {}
        /\ ex_result = NoPath

C3_Witness ==
    /\ ex_pc = "raised"
    /\ ex_error = "RenderFailure"
    /\ ex_i >= 1
    /\ ~debug

\* C4 as stated: a failure local to one candidate (its cut, one of its effects,
\* its render) never aborts the batch: when process_shorts_with_progress is
\* left, every candidate after the failed one has been processed too.
C4_BatchSurvivesFailure ==
    (b_pc \in {"returned", "aborted"}) => b_started = 0..(num_shorts - 1)

\* A run the claim is about: a candidate's step failed and a later candidate exists.
C4_Witness == b_failed >= 0 /\ b_failed + 1 < num_shorts

\* The range test of the claim: 0 <= start <= end < len(speech.segments).
ValidRange(short) ==
    /\ 0 <= short.start_segment_index
    /\ short.start_segment_index <= short.end_segment_index
    /\ short.end_segment_index < Len(segments)

IndexPair(short) == <<short.start_segment_index, short.end_segment_index>>

IndexPairs(seq) == [k \in DOMAIN seq |-> IndexPair(seq[k])]

\* C5: the resolver drops every candidate whose indices violate
\* 0 <= start <= end < len(speech.segments) without raising, and resolves every
\* other candidate of the response: the output holds exactly the candidates
\* with a valid range, in the response's order.
C5_ResolverRejection ==
    /\ r_pc # "raised"
    /\ r_pc \in {"loop", "returned"} =>
          IndexPairs(r_shorts) = IndexPairs(SelectSeq(SubSeq(cands, 1, r_k), ValidRange))

\* A response with a dropped candidate before a resolved one.
C5_Witness ==
    /\ r_pc = "returned"
    /\ Len(cands) = 2
    /\ ~ValidRange(cands[1])
    /\ ValidRange(cands[2])
    /\ Len(r_shorts) = 1

\* C6 as stated: every resolved short carries start_time equal to
\* speech.segments[start_segment_index].start_time and end_time equal to
\* speech.segments[end_segment_index].end_time, with end_time > start_time.
C6_ResolvedTimes ==
    \A k \in DOMAIN r_shorts :
        LET r == r_shorts[k]
        IN /\ "start_time" \in DOMAIN r
           /\ "end_time" \in DOMAIN r
           /\ r.start_time = segments[r.start_segment_index + 1].start_time
           /\ r.end_time = segments[r.end_segment_index + 1].end_time
           /\ r.end_time > r.start_time

C6_Witness == r_pc = "returned" /\ Len(r_shorts) >= 1

\* C7 as stated: the speech of every resolved short is exactly
\* segments[start_segment_index .. end_segment_index] in order, and the captions
\* effect built for it expresses each entry in the clip's local time: the first
\* entry starts at 0 and the last entry's local end is end_time - start_time.
C7_LocalSpeechSlice ==
    /\ \A k \in DOMAIN r_shorts :
          r_shorts[k].speech = SubSeq(segments, r_shorts[k].start_segment_index + 1,
                                      r_shorts[k].end_segment_index + 1)
    /\ cap_pc # "off" =>
          LET r == r_shorts[cap_short]
              first == segments[r.start_segment_index + 1]
              last == segments[r.end_segment_index + 1]
          IN /\ cap_pc = "done"
             /\ Len(cap_windows) = Len(r.speech)
             /\ cap_windows[1].start = 0
             /\ cap_windows[Len(cap_windows)].end = last.end_time - first.start_time

C7_Witness == cap_pc # "off" /\ Len(r_shorts[cap_short].speech) >= 2

\* C8: for a text with at least one word and end - start >= 0.3, the returned
\* list holds one timing per word, in word order; the first starts at start,
\* each starts exactly where the previous one ends, every timing has
\* start <= end, and the last ends exactly at end.
C8_WordTimingCoverage ==
    (t_pc = "returned" /\ Split(t_text) # <<>> /\ t_end - t_start >= 300000) =>
        /\ Len(t_timings) = Len(Split(t_text))
        /\ \A k \in DOMAIN t_timings :
              /\ t_timings[k].word = Split(t_text)[k]
              /\ t_timings[k].start <= t_timings[k].end
              /\ t_timings[k].start = IF k = 1 THEN t_start ELSE t_timings[k - 1].end
        /\ t_timings[Len(t_timings)].end = t_end

\* A segment of three words whose rounded shares do not add up to the duration.
C8_Witness ==
    /\ t_pc = "returned"
    /\ Len(t_timings) = 3
    /\ t_end - t_start >= 300000
    /\ t_timings[3].start + WordDuration(t_weights[3], Sum(t_weights), t_end - t_start) # t_end

\* C9 as stated: for every text and end - start < 0.3 the returned list holds
\* exactly one timing, with the whole unsplit text, spanning [start, end].
C9_AsStated ==
    (t_pc = "returned" /\ t_end - t_start < 300000) =>
        t_timings = <<[word |-> t_text, start |-> t_start, end |-> t_end]>>

\* C9 (amended): for every text with at least one word and end - start < 0.3
\* the returned list holds exactly one timing, with the whole unsplit text,
\* spanning [start, end], whatever the number of words.
C9_WordTimingFloor ==
    (t_pc = "returned" /\ t_end - t_start < 300000 /\ Split(t_text) # <<>>) =>
        t_timings = <<[word |-> t_text, start |-> t_start, end |-> t_end]>>

C9_Witness ==
    /\ t_pc = "returned"
    /\ t_end - t_start = 100000
    /\ Len(Split(t_text)) >= 2
    /\ Len(t_timings) = 1

\* The weight of a word, in hundredths, from the length of the word with the
\* punctuation removed from its end only ...
WeightTrailing(word) ==
    100 + 8 * Len(RStrip(word, Punctuation))
        + (IF \E k \in DOMAIN word : word[k] \in Punctuation THEN 10 ELSE 0)

\* ... and with the punctuation removed from both of its ends.
WeightBothEnds(word) ==
    100 + 8 * Len(RStrip(LStrip(word, Punctuation), Punctuation))
        + (IF \E k \in DOMAIN word : word[k] \in Punctuation THEN 10 ELSE 0)

\* d is (weight / total) * duration on the microsecond grid.
IsShare(d, weight, total, duration) ==
    d * total <= weight * duration /\ weight * duration < (d + 1) * total

\* C10 as stated: for duration >= 0.3 s every word but the last gets the
\* duration (weight / sum of weights) * (end - start), the weight being
\* 1.0 + 0.08 * (length without trailing punctuation) + (0.1 if the word holds
\* a punctuation mark).
C10_AsStated ==
    (t_pc = "returned" /\ Split(t_text) # <<>> /\ t_end - t_start >= 300000) =>
        LET words == Split(t_text)
            total == Sum([k \in DOMAIN words |-> WeightTrailing(words[k])])
        IN \A k \in 1..(Len(t_timings) - 1) :
               IsShare(t_timings[k].end - t_timings[k].start,
                       WeightTrailing(words[k]), total, t_end - t_start)

\* C10 (amended): the same, the length being that of the word with the
\* punctuation removed from both of its ends (leading as well as trailing).
C10_ProportionalDurations ==
    (t_pc = "returned" /\ Split(t_text) # <<>> /\ t_end - t_start >= 300000) =>
        LET words == Split(t_text)
            total == Sum([k \in DOMAIN words |-> WeightBothEnds(words[k])])
        IN /\ Len(t_timings) = Len(words)
           /\ \A k \in 1..(Len(t_timings) - 1) :
                 IsShare(t_timings[k].end - t_timings[k].start,
                         WeightBothEnds(words[k]), total, t_end - t_start)

\* Two words, the first a letter after a leading punctuation mark.
C10_Witness ==
    /\ t_pc = "returned"
    /\ t_end - t_start >= 300000
    /\ Len(t_timings) = 2
    /\ WeightTrailing(t_timings[1].word) # WeightBothEnds(t_timings[1].word)

\* C11 as stated: for "Build three things fast" on [10.0, 14.0] the weights
\* are [1.4, 1.48, 1.48, 1.32], the four durations sum to 4.0 s and the last
\* word ends at 14.0 s.
ScenarioReturned ==
    /\ t_pc = "returned"
    /\ t_text = ScenarioText
    /\ t_start = ScenarioStart
    /\ t_end = ScenarioEnd

TimingDurations ==
    [k \in 1..Len(t_timings) |-> t_timings[k].end - t_timings[k].start]

C11_AsStated ==
    ScenarioReturned =>
        /\ t_weights = <<140, 148, 148, 132>>
        /\ Sum(TimingDurations) = 4000000
        /\ t_timings[Len(t_timings)].end = 14000000

\* C11: for "Build three things fast" on [10.0, 14.0] the weights are
\* [1.4, 1.4, 1.48, 1.32] ("three" has five letters), the four words are
\* Build, three, things, fast in order, their durations sum to exactly 4.0 s
\* and the last word ends at exactly 14.0 s.
C11_ScenarioTimings ==
    ScenarioReturned =>
        /\ t_weights = <<140, 140, 148, 132>>
        /\ Len(t_timings) = 4
        /\ t_timings[1].word = <<"B", "u", "i", "l", "d">>
        /\ t_timings[2].word = <<"t", "h", "r", "e", "e">>
        /\ t_timings[3].word = <<"t", "h", "i", "n", "g", "s">>
        /\ t_timings[4].word = <<"f", "a", "s", "t">>
        /\ t_timings[1].start = 10000000
        /\ Sum(TimingDurations) = 4000000
        /\ t_timings[4].end = 14000000

C11_Witness ==
    /\ ScenarioReturned
    /\ Len(t_timings) = 4
    /\ t_timings[2].end = 12000000

\* The characters a renderer shows for an event text, each with the colour in
\* force where it stands: a colour tag changes the colour of what follows.
RECURSIVE RenderFrom(_, _, _, _)
RenderFrom(text, k, colour, acc) ==
    IF k > Len(text) THEN acc
    ELSE IF text[k] \in Tags
    THEN RenderFrom(text, k + 1, text[k], acc)
    ELSE RenderFrom(text, k + 1, colour, Append(acc, [ch |-> text[k], colour |-> colour]))

Rendered(text) == RenderFrom(text, 1, "style", <<>>)

\* Equal up to the case of the letters.
SameLetters(a, b) ==
    /\ Len(a) = Len(b)
    /\ \A k \in 1..Len(a) : Upper(a[k]) = Upper(b[k])

\* The positions of word i (from 1) in the words joined by single spaces.
WordSpan(words, i) ==
    LET before == Len(Join(Take(words, i - 1))) + (IF i > 1 THEN 1 ELSE 0)
    IN (before + 1)..(before + Len(words[i]))

\* How many events a segment has in the document.
EventCount(segment) ==
    IF Split(segment.text) = <<>> THEN 0
    ELSE IF ~c_highlighting THEN 1
    ELSE LET window == LocalWindow(segment, c_offset)
         IN IF window.end - window.start < MinHighlightDuration THEN 1
            ELSE Len(Split(segment.text))

C12_EventsOfSegment ==
    LET segment == c_speech[c_j + 1]
        words == Split(segment.text)
        new == SubSeq(c_events', Len(c_events) + 1, Len(c_events'))
    IN /\ SubSeq(c_events', 1, Len(c_events)) = c_events
       /\ Len(new) = EventCount(segment)
       /\ c_highlighting =>
            \A i \in 1..Len(new) :
                LET shown == Rendered(new[i].text)
                IN /\ SameLetters([k \in 1..Len(shown) |-> shown[k].ch], Join(words))
                   /\ \A k \in 1..Len(shown) :
                        shown[k].colour = IF k \in WordSpan(words, i)
                                          THEN HighlightTag ELSE DimTag

C12_Step == (c_pc = "ass" /\ c_j' = c_j + 1) => C12_EventsOfSegment

C12_Document ==
    c_pc \in {"apply", "draw", "done"} =>
        Len(c_events) = Sum([k \in 1..Len(c_speech) |-> EventCount(c_speech[k])])

LongestFit(ws, max_chars) ==
    CHOOSE n \in 0..Len(ws) :
        /\ Len(Join(Take(ws, n))) <= max_chars
        /\ n < Len(ws) => Len(Join(Take(ws, n + 1))) > max_chars

StrictWords == Split(w_text)

\* The words that follow those of line1.
StrictRest == Drop(StrictWords, LongestFit(StrictWords, w_max))

\* C13: _create_strict_two_lines returns a pair (line1, line2); the words of
\* line1 are the longest prefix of the input words whose space-joined length
\* is within max_chars_per_line; line2 is built from the following words under
\* the same budget; both lines are within max_chars_per_line and there is no
\* third line.
C13_TwoLineBudget ==
    w_pc = "returned" =>
        LET line1 == w_lines[1]
            line2 == w_lines[2]
            fit2 == LongestFit(StrictRest, w_max)
            kept == Join(Take(StrictRest, fit2))
        IN /\ Len(w_lines) = 2
           /\ \A k \in 1..Len(line1) : line1[k] # LineBreak
           /\ \A k \in 1..Len(line2) : line2[k] # LineBreak
           /\ Len(line1) <= w_max
           /\ Len(line2) <= w_max
           /\ Split(line1) = Take(StrictWords, LongestFit(StrictWords, w_max))
           /\ IF StrictRest = <<>> THEN line2 = <<>>
              ELSE IF fit2 = Len(StrictRest) THEN line2 = kept
              ELSE IF fit2 > 0 THEN line2 \in {kept, kept \o <<Ellipsis>>}
              ELSE line2 = Take(StrictRest[1], w_max - 1) \o <<Ellipsis>>

C13_Witness ==
    /\ w_pc = "returned"
    /\ Len(Split(w_lines[1])) = 2
    /\ Len(Split(w_lines[2])) = 2
    /\ Len(StrictWords) = 4

\* Words of the input remain unplaced after line2 is full.
Unplaced == LongestFit(StrictRest, w_max) < Len(StrictRest)

\* C14 as stated: whenever words remain unplaced after line2 is full, line2
\* ends with an ellipsis and is within max_chars_per_line; whole words are
\* kept and a word is cut only when it alone exceeds the budget.
C14_AsStated ==
    (w_pc = "returned" /\ Unplaced) =>
        LET line2 == w_lines[2]
            fit2 == LongestFit(StrictRest, w_max)
        IN /\ Len(line2) <= w_max
           /\ IF fit2 > 0
              THEN line2 = Join(Take(StrictRest, fit2)) \o <<Ellipsis>>
              ELSE /\ Len(StrictRest[1]) > w_max
                   /\ line2 = Take(StrictRest[1], w_max - 1) \o <<Ellipsis>>

\* C14: whenever words remain unplaced after line2 is full, line2 is within
\* max_chars_per_line and ends with an ellipsis unless its whole words already
\* fill the budget, in which case it is those words without an ellipsis; whole
\* words are kept and a word is cut only when it alone exceeds the budget.
C14_EllipsisWhenRoom ==
    (w_pc = "returned" /\ Unplaced) =>
        LET line2 == w_lines[2]
            fit2 == LongestFit(StrictRest, w_max)
            kept == Join(Take(StrictRest, fit2))
        IN /\ Len(line2) <= w_max
           /\ IF fit2 > 0
              THEN line2 = (IF Len(kept) < w_max THEN kept \o <<Ellipsis>> ELSE kept)
              ELSE /\ Len(StrictRest[1]) > w_max
                   /\ line2 = Take(StrictRest[1], w_max - 1) \o <<Ellipsis>>

C14_Witness ==
    /\ w_pc = "returned"
    /\ Unplaced
    /\ LongestFit(StrictRest, w_max) > 0
    /\ w_lines[2][Len(w_lines[2])] = Ellipsis

\* The lines of a wrapped text: what stands before and after its line break.
LinesOf(text) ==
    LET breaks == {k \in 1..Len(text) : text[k] = LineBreak}
    IN IF breaks = {} THEN {text}
       ELSE LET k == CHOOSE b \in breaks : \A c \in breaks : b <= c
            IN {SubSeq(text, 1, k - 1), SubSeq(text, k + 1, Len(text))}

\* The word cut to the budget: max_chars - 1 characters and the ellipsis.
HardTruncated(word, max_chars) == Take(word, max_chars - 1) \o <<Ellipsis>>

\* C15: when a word longer than max_chars_per_line is the first word to be
\* placed on an empty line (the very first word of the text included), either
\* wrapper emits it cut, with a trailing ellipsis, within max_chars_per_line.
C15_OverlongWordTruncated ==
    /\ (w_pc = "returned" /\ StrictRest # <<>> /\ Len(StrictRest[1]) > w_max) =>
           /\ HardTruncated(StrictRest[1], w_max) \in {w_lines[1], w_lines[2]}
           /\ Len(HardTruncated(StrictRest[1], w_max)) <= w_max
    /\ (m_pc = "returned" /\ StrictRest # <<>> /\ Len(StrictRest[1]) > w_max) =>
           /\ HardTruncated(StrictRest[1], w_max) \in LinesOf(m_text)
           /\ \A line \in LinesOf(m_text) : Len(line) <= w_max

C16_Total ==
    /\ w_pc = "call" =>
          Len(_create_strict_two_lines(w_text, w_max)) = 2
    /\ w_pc = "returned" =>
          /\ Len(w_lines) = 2
          /\ (\A k \in 1..Len(w_text) : w_text[k] \in Whitespace) => w_lines = <<<<>>, <<>>>>

C16_Pure ==
    (w_pc = "call" /\ w_pc' = "returned") => UNCHANGED <<w_text, w_max, cVars, fVars, xVars, oVars>>

\* C16: _create_strict_two_lines is total and pure: for every text (empty,
\* blank, one word, many words) the call returns a pair, no run of it raises,
\* it changes neither its argument nor any state of the effect, and an empty
\* or blank text gives ("", "").
C16_TotalAndPure == [](C16_Total) /\ [][C16_Pure]_vars

C16_Witness ==
    /\ w_pc = "returned"
    /\ Len(w_text) >= 2
    /\ \A k \in 1..Len(w_text) : w_text[k] \in Whitespace
    /\ w_lines = <<<<>>, <<>>>>

\* The characters of an event text that are shown: everything but colour tags.
Visible(text) == SelectSeq(text, LAMBDA c : c \notin Tags)

\* C17: every caption event of the subtitle document has a text of at most two
\* lines (at most one line break), each line within max_chars_per_line visible
\* characters, with and without word highlighting.
C17_EventWithinTwoLines ==
    \A k \in 1..Len(c_events) :
        LET shown == Visible(c_events[k].text)
        IN /\ Cardinality({p \in 1..Len(shown) : shown[p] = LineBreak}) <= 1
           /\ \A line \in LinesOf(shown) : Len(line) <= c_max

\* Empty or made of white space only.
NoText(text) == \A k \in 1..Len(text) : text[k] \in Whitespace

RECURSIVE EventsOf(_)
\* The events of a speech: those of its segments, one segment after the other.
EventsOf(speech) ==
    IF speech = <<>> THEN <<>>
    ELSE (IF c_highlighting
          THEN HighlightedEvents(Head(speech), c_offset, c_max)
          ELSE <<PlainEvent(Head(speech), c_offset, c_max)>>)
         \o EventsOf(Tail(speech))

RECURSIVE FiltersOf(_)
\* The drawtext filters of a speech, one segment after the other; a segment
\* whose first line is empty has none.
FiltersOf(speech) ==
    IF speech = <<>> THEN <<>>
    ELSE (IF DrawnLines(Head(speech), c_max)[1] = <<>> THEN <<>>
          ELSE DrawtextFilters(Head(speech), c_offset, c_max))
         \o FiltersOf(Tail(speech))

WithText(speech) == SelectSeq(speech, LAMBDA segment : ~NoText(segment.text))

C18_Step ==
    (c_pc \in {"ass", "draw"} /\ c_j < Len(c_speech) /\ NoText(c_speech[c_j + 1].text)) =>
        /\ c_j' = c_j + 1
        /\ UNCHANGED <<c_pc, c_events, c_filters>>

C18_Others ==
    /\ c_pc \in {"apply", "draw", "done"} => c_events = EventsOf(WithText(c_speech))
    /\ c_pc = "done" => c_filters = FiltersOf(WithText(c_speech))

\* C18: a segment whose text is empty or blank adds no event to the subtitle
\* document and no drawtext filter to the stream and raises nothing, and the
\* events and filters of the other segments are those the clip would have
\* without it.
C18_BlankSegmentSkipped == [](C18_Others) /\ [][C18_Step]_vars

C18_Witness ==
    /\ c_pc = "done"
    /\ Len(c_speech) = 2
    /\ c_speech[1].text = <<" ">>
    /\ Len(c_events) > 0
    /\ Len(c_filters) > 0

\* The scaled picture lies within the canvas, one of its dimensions is the
\* target's and the other is the source's aspect ratio times it, to the
\* nearest pixel.
ScaledWithin ==
    /\ f_scaled[1] <= f_target[1]
    /\ f_scaled[2] <= f_target[2]

WidthFixed ==
    /\ f_scaled[1] = f_target[1]
    /\ 2 * (f_scaled[2] * f_source[1] - f_target[1] * f_source[2]) <= f_source[1]
    /\ 2 * (f_target[1] * f_source[2] - f_scaled[2] * f_source[1]) <= f_source[1]

HeightFixed ==
    /\ f_scaled[2] = f_target[2]
    /\ 2 * (f_scaled[1] * f_source[2] - f_target[2] * f_source[1]) <= f_source[2]
    /\ 2 * (f_target[2] * f_source[1] - f_scaled[1] * f_source[2]) <= f_source[2]

\* The margins the pad filter leaves around the picture.
Left == f_pad.x

Right == f_pad.w - f_scaled[1] - f_pad.x

Top == f_pad.y

Bottom == f_pad.h - f_scaled[2] - f_pad.y

\* C19 as stated: exactly one of scaled width and scaled height equals its
\* target, the other is derived from the source aspect ratio and is at most
\* its target; the picture is centred on a target_w x target_h black canvas
\* with equal padding on both sides.
C19_AsStated ==
    /\ f_pc \in {"scaled", "padded"} =>
          /\ ScaledWithin
          /\ (WidthFixed /\ f_scaled[2] # f_target[2])
             \/ (HeightFixed /\ f_scaled[1] # f_target[1])
    /\ f_pc = "padded" =>
          /\ f_pad.w = f_target[1] /\ f_pad.h = f_target[2] /\ f_pad.color = "black"
          /\ Left = Right
          /\ Top = Bottom

\* C19: one of scaled width and scaled height is set to its target (the width
\* when the source is wider than the target, else the height) and the other is
\* derived from the source aspect ratio, to the nearest pixel, and is at most
\* its target (both equal their targets when the ratios agree); the picture is
\* put on a target_w x target_h black canvas with margins that are not
\* negative and differ by at most one pixel between the two sides.
C19_ReframeWithinCanvas ==
    /\ f_pc \in {"scaled", "padded"} =>
          /\ ScaledWithin
          /\ IF WiderThanTarget(f_source, f_target) THEN WidthFixed ELSE HeightFixed
    /\ f_pc = "padded" =>
          /\ f_pad.w = f_target[1] /\ f_pad.h = f_target[2] /\ f_pad.color = "black"
          /\ Left >= 0 /\ Top >= 0
          /\ Right - Left \in {0, 1}
          /\ Bottom - Top \in {0, 1}

C19_Witness ==
    /\ f_pc = "padded"
    /\ f_source = <<1920, 1080>>
    /\ f_target = <<1080, 1920>>
    /\ f_scaled = <<1080, 608>>
    /\ Top = 656
    /\ Bottom = 656

\* C20: the opening transition filter with (strength, duration, steps) emits
\* exactly steps filtered segments, segment i covering
\* [i * duration / steps, (i + 1) * duration / steps) with intensity
\* strength * (1 - i / steps), then one unfiltered segment [duration, end);
\* the segments are contiguous and in increasing time order and the intensity
\* does not increase with i.
C20_SteppedTransition ==
    x_pc = "returned" =>
        /\ Len(x_segments) = x_steps + 1
        /\ \A i \in 0..(x_steps - 1) :
              LET segment == x_segments[i + 1]
              IN /\ segment.filter # "none"
                 /\ segment.start * x_steps = i * x_duration
                 /\ segment.end * x_steps = (i + 1) * x_duration
                 /\ segment.num * x_steps = x_strength * (x_steps - i) * segment.den
        /\ x_segments[Len(x_segments)] = RemainingPart
        /\ \A k \in 1..(Len(x_segments) - 1) :
              /\ x_segments[k].end = x_segments[k + 1].start
              /\ x_segments[k].start < x_segments[k].end
              /\ x_segments[k].num * x_segments[k + 1].den
                     >= x_segments[k + 1].num * x_segments[k].den

\* The tempo range one atempo stage supports, in hundredths: [0.5, 2.0].
InStageRange(tempo) == 50 <= tempo /\ tempo <= 200

\* The atempo stages on the audio stream, in order.
TempoStages == SelectSeq(s_audio, LAMBDA stage : stage.filter = "atempo")

\* The product of the first n stage tempos, in units of 100^-n.
RECURSIVE TempoProduct(_)
TempoProduct(n) ==
    IF n = 0 THEN 1 ELSE TempoProduct(n - 1) * TempoStages[n].tempo

RECURSIVE Hundred(_)
Hundred(n) == IF n = 0 THEN 1 ELSE 100 * Hundred(n - 1)

\* C21: given a tempo factor outside [0.5, 2.0], the speed change either
\* rejects the request or returns an audio chain whose atempo stages are each
\* within [0.5, 2.0] and multiply to the requested factor; it never returns a
\* single stage carrying the out-of-range factor.
C21_TempoStagesInRange ==
    (s_pc = "returned" /\ ~InStageRange(s_factor)) =>
        /\ \A k \in 1..Len(TempoStages) : InStageRange(TempoStages[k].tempo)
        /\ TempoProduct(Len(TempoStages)) * 100
               = s_factor * Hundred(Len(TempoStages))

\* The classes of the effects built so far, in list order.
BuiltClasses == [k \in 1..Len(st_built) |-> st_built[k].class]

\* The captions document was written to the data directory.
CaptionsFileWritten == c_pc = "apply"

\* C22: for every short, speed factor, data directory and short index,
\* BASIC.create_effects ends by returning the six effects audio normalization,
\* reframe, title text, captions, opening blur, speed change in this order,
\* and it is a pure mapping: it leaves nothing behind but the list.
C22_PureFixedList ==
    st_pc \in {"returned", "raised"} =>
        /\ st_pc = "returned"
        /\ BuiltClasses = BasicEffects
        /\ ~CaptionsFileWritten

\* The paths an execution has written or unlinked so far.
PathsOf(e) == {o.path : o \in {x \in p_ops : x.by = e}}

\* The execution has made its working directory.
HasDirectory(e) == p_pc[e] \notin {"off", "idle"}

\* C23 as stated: each execution works in its own unique working directory,
\* so every path it writes or deletes lies in that directory, the directories
\* of two executions differ and their path sets are disjoint.
C23_AsStated ==
    /\ \A e \in DOMAIN p_pc : \A path \in PathsOf(e) : path.dir = p_dir[e]
    /\ \A e1, e2 \in DOMAIN p_pc :
          (e1 # e2 /\ HasDirectory(e1) /\ HasDirectory(e2)) => p_dir[e1] # p_dir[e2]
    /\ \A e1, e2 \in DOMAIN p_pc : e1 # e2 => PathsOf(e1) \cap PathsOf(e2) = {}

\* C23: two executions for different clips of one batch, interleaved in any
\* way, never write or delete a path of each other: every intermediate file
\* lies in the execution's working directory under a name that starts with its
\* own clip's name, and the captions document lies in the data directory under
\* the clip's own short index, so the two path sets are disjoint (also when
\* both executions read the same time and share one working directory).
C23_DisjointPaths ==
    /\ \A e \in DOMAIN p_pc : \A path \in PathsOf(e) :
          \/ path = CaptionsPath(p_short[e])
          \/ path.dir = p_dir[e] /\ path.dir # 0 /\ path.name[1] = ClipName(e)
    /\ \A e1, e2 \in DOMAIN p_pc : e1 # e2 => PathsOf(e1) \cap PathsOf(e2) = {}

\* Both executions ran to the end in one and the same working directory, and
\* each wrote and unlinked files there.
C23_Witness ==
    /\ p_pc = [e \in Executions |-> "done"]
    /\ p_dir[1] = p_dir[2]
    /\ \A e \in Executions :
          /\ \E o \in p_ops : o.by = e /\ o.op = "unlink"
          /\ \E o \in p_ops : o.by = e /\ o.op = "write" /\ o.path.dir = p_dir[e]

\* C24: the clip of a resolved short is written under the name
\* short_{index}_{start}s-{end}s formed from the clip index and the start and
\* end times in seconds only, and on a re-run that uses the cache a clip that
\* already exists under that name is detected and not generated again.
C24_NamedAndCached ==
    k_pc \in {"returned", "raised"} =>
        /\ k_name = ShortFileName(k_index, k_start, k_end)
        /\ Mp4 \in k_files
        /\ (Mp4 \in k_existed /\ ~k_refresh) => k_runs = 0

\* The stage call is over.
StageEnded == h_pc \in {"returned", "raised"}

\* What the file found at the call stands for.
CachedValue == IF h_stage = "audio" THEN OutputFile ELSE Parse(h_before)

\* The file holds what the stage returned.
ResultSaved == IF h_stage = "audio" THEN h_file = Mp3 ELSE Parse(h_file) = h_result

\* The file was found and used: nothing was called, nothing written.
ServedFromCache ==
    /\ h_pc = "returned"
    /\ h_result = CachedValue
    /\ h_calls = 0
    /\ h_writes = 0
    /\ h_file = h_before

\* The collaborator was called once and, on success, the result saved.
Regenerated ==
    /\ h_calls = 1
    /\ h_pc = "returned" => (h_writes = 1 /\ ResultSaved)

\* The run after a successful run returns what that run returned.
SecondRunAgrees == (h_run = 2 /\ h_pc = "returned") => h_result = h_first

\* C25 as stated: every cached stage serves an existing file when refresh is
\* false, and calls its collaborator otherwise.
C25_AsStated ==
    /\ (StageEnded /\ h_before # NoFile /\ ~h_refresh) => ServedFromCache
    /\ (StageEnded /\ (h_before = NoFile \/ h_refresh)) => Regenerated
    /\ SecondRunAgrees

\* Audio extraction first needs the video and an ffmpeg executable.
StageUsable == h_stage = "audio" => (h_video /\ h_ffmpeg)

\* C25: a cached stage whose output file exists returns the cached content
\* when refresh is false, without calling its collaborator and without writing
\* the file; with refresh true or no file it calls the collaborator once and
\* on success saves the result, so that the run that follows with refresh
\* false returns the same value. Audio extraction does either only after it
\* has found the source video and an ffmpeg executable, and raises otherwise.
C25_CachedStages ==
    /\ (StageEnded /\ StageUsable /\ h_before # NoFile /\ ~h_refresh) => ServedFromCache
    /\ (StageEnded /\ StageUsable /\ (h_before = NoFile \/ h_refresh)) => Regenerated
    /\ (StageEnded /\ ~StageUsable) => (h_pc = "raised" /\ h_calls = 0 /\ h_writes = 0)
    /\ SecondRunAgrees

\* A first run produced a recommendation with one short, and the run after it
\* returned the same from the cache, calling nothing.
C25_Witness ==
    /\ h_stage = "shorts"
    /\ h_run = 2
    /\ h_pc = "returned"
    /\ h_calls = 0
    /\ h_first.total_shorts_found = 1
    /\ h_result = h_first
    /\ h_before # NoFile

\* While short b_i is being uploaded or has been handed on, its pipeline is
\* done and the final clip lies under the cut clip's path, no longer under its
\* own; no short other than b_i is started and unfinished.
C26_Order ==
    /\ b_pc \in {"upload", "update"} =>
          /\ ex_pc = "done"
          /\ video_path = CutClipPath(b_i)
          /\ video_path \in files
          /\ ex_result \notin files
    /\ b_pc = "upload" => upload_enabled
    /\ b_started \subseteq 0..b_i
    /\ b_completed \subseteq b_started
    /\ (b_started \ {b_i}) \subseteq b_completed

\* The moves of the loop: cut, then the effects, then the replacement, which
\* leads to the upload when it is enabled, then the next short.
C26_Step ==
    /\ (b_pc' = "effects" /\ b_pc # "effects") => (b_pc = "cut" /\ b_i' = b_i)
    /\ (b_pc' = "upload" /\ b_pc # "upload") =>
          /\ b_pc = "effects"
          /\ ex_pc = "done"
          /\ ex_result \in files
          /\ b_i' = b_i
    /\ (b_pc' = "update" /\ b_pc # "update") =>
          /\ b_pc = "upload" \/ (b_pc = "effects" /\ ~upload_enabled /\ ex_pc = "done")
          /\ b_i' = b_i
    /\ (b_pc' = "cut" /\ b_pc # "cut") =>
          /\ b_pc = "update"
          /\ b_i' = b_i + 1
          /\ b_i \in b_completed'
    /\ ex_pc' # ex_pc => b_pc \in {"cut", "effects"}

\* C26: in the batch loop every short goes cut -> effects -> replacement of
\* the cut clip by the final clip under the cut clip's path -> upload (if
\* enabled); the upload of short i never starts before its pipeline is done
\* and the final file lies at the uploaded path, and short i+1 is not started
\* before short i is finished.
C26_BatchOrder == [](C26_Order) /\ [][C26_Step]_vars

\* The second short is being uploaded after the first was finished.
C26_Witness == b_pc = "upload" /\ b_i = 1 /\ 0 \in b_completed /\ Len(applied) >= 2

\* The window of the j-th segment of the speech on the clip's timeline.
SegmentWindow(j) == LocalWindow(c_speech[j], c_offset)

\* A drawtext filter shows the j-th segment in its window.
Shown(j) ==
    \E k \in DOMAIN c_filters :
        /\ c_filters[k].enable_start = SegmentWindow(j).start
        /\ c_filters[k].enable_end = SegmentWindow(j).end

\* The segments are in time order and do not overlap.
OrderedSpeech ==
    \A j \in 1..(Len(c_speech) - 1) :
        /\ c_speech[j].start_time <= c_speech[j].end_time
        /\ c_speech[j].end_time <= c_speech[j + 1].start_time

\* The short starts where its first segment starts, as a resolved short does.
ResolvedOffset == c_speech # <<>> /\ c_offset = c_speech[1].start_time

\* C27: for time-ordered, non-overlapping segments of a resolved short, the
\* display windows start = max(0, seg.start - short.start),
\* end = max(start + 0.1, seg.end - short.start) of two different segments
\* that are drawn never overlap.
C27_WindowsDisjoint ==
    (c_pc = "done" /\ OrderedSpeech /\ ResolvedOffset) =>
        \A i, j \in DOMAIN c_speech :
            (i < j /\ Shown(i) /\ Shown(j)) =>
                SegmentWindow(i).end <= SegmentWindow(j).start

\* The events the step has appended to the document.
NewEvents == SubSeq(c_events', Len(c_events) + 1, Len(c_events'))

\* A step of _generate_ass_file that writes the word-highlight events of a
\* segment: they tile the segment's window in whole milliseconds.
C28_Step ==
    (c_pc = "ass" /\ c_highlighting /\ Len(c_events') > Len(c_events)) =>
        LET window == LocalWindow(AssSegment, c_offset)
            n == Len(NewEvents)
        IN /\ NewEvents[1].start = window.start \div 1000
           /\ NewEvents[n].end = window.end \div 1000
           /\ \A k \in 1..n : NewEvents[k].start <= NewEvents[k].end
           /\ \A k \in 1..(n - 1) : NewEvents[k].end = NewEvents[k + 1].start

PassedNonBlank == {j \in 1..c_j : ~Blank(c_speech[j].text)}

\* C29: for every segment whose text contains a word _create_strict_two_lines
\* returns a non-empty line1, so _apply_ffmpeg_captions draws a caption for
\* every non-blank segment: none is left without a drawtext filter.
C29_EveryNonBlankDrawn ==
    c_pc \in {"draw", "done"} =>
        /\ \A j \in PassedNonBlank : DrawnLines(c_speech[j], c_max)[1] # <<>>
        /\ Len(c_filters) >= Cardinality(PassedNonBlank)

\* The words of the returned line1 followed by the words of the returned line2.
ReturnedWords == Split(w_lines[1]) \o Split(w_lines[2])

\* s is t or the beginning of t.
IsPrefix(s, t) == Len(s) <= Len(t) /\ s = SubSeq(t, 1, Len(s))

\* The returned words are a prefix of the input words, a trailing ellipsis and
\* a hard-truncated last word left aside.
ReturnedPrefix ==
    LET out == ReturnedWords
        n == Len(out)
    IN IF n > 0 /\ out[n][Len(out[n])] = Ellipsis
       THEN LET bare == SubSeq(out[n], 1, Len(out[n]) - 1)
                before == SubSeq(out, 1, n - 1)
            IN \/ IsPrefix(before \o <<bare>>, StrictWords)
               \/ /\ IsPrefix(before, StrictWords)
                  /\ n <= Len(StrictWords)
                  /\ IsPrefix(bare, StrictWords[n])
                  /\ Len(bare) < Len(StrictWords[n])
       ELSE IsPrefix(out, StrictWords)

\* C30: _create_strict_two_lines never reorders, duplicates or invents words:
\* the words of line1 followed by the words of line2 (a trailing ellipsis and a
\* hard-truncated last word left aside) are a prefix of the input words, and
\* they are all the input words when every word fits in the two lines.
C30_WordsArePrefix ==
    w_pc = "returned" =>
        /\ ReturnedPrefix
        /\ ~Unplaced => ReturnedWords = StrictWords

\* Two lines were returned for a text of at least three words, some placed in
\* line2 and some left out.
C30_Witness ==
    /\ w_pc = "returned"
    /\ Len(StrictWords) >= 3
    /\ w_lines[1] # <<>>
    /\ w_lines[2] # <<>>
    /\ Len(ReturnedWords) < Len(StrictWords)

====
